---------------------------- MODULE Spec2Model ----------------------------
(***************************************************************************)
(* A model of the plan tree of dynamic_plan_tree (src/dynamic_plan_tree/    *)
(* src/plan.rs): the Plan node, its active/inactive lifecycle, the tick     *)
(* algorithm run(), and the behaviour callbacks it drives.                  *)
(*                                                                         *)
(* A plan is a record; its subplans are a sequence of plans kept sorted by  *)
(* name.  Every method of Plan is an operator that takes a "world"          *)
(*     [p |-> the plan the method is called on,                             *)
(*      log |-> the callbacks and trace events so far,                      *)
(*      ret |-> the value the last call returned]                           *)
(* and returns the world after the call.  Option<T> is a sequence of        *)
(* length 0 (None) or 1 (Some).  The serial build (no rayon) is modelled:   *)
(* siblings are visited in subplan order.                                   *)
(***************************************************************************)
EXTENDS Integers, Sequences, FiniteSets, TLC

VARIABLES
    root,   \* the plan tree the user owns
    log,    \* the events of the last operation, in order
    op,     \* the last operation: its name, argument and return value
    ticks,  \* run() calls on the root since it was last entered
    late    \* run() calls on the subplan "B" since enter_plan entered it

vars == <<root, log, op, ticks, late>>

(***************************************************************************)
(* Bounds of the model.                                                    *)
(***************************************************************************)
\* run_countdown is a u32; the model keeps Width bits of it.
Width == 4
\* run_interval of the plans the user builds ranges over 0..MaxInterval.
MaxInterval == 2
\* A behaviour's entry_count never exceeds MaxCount in the explored states.
MaxCount == 1
\* The scenario specifications stop after MaxTicks ticks of one activation.
MaxTicks == 12
\* A behaviour's run_count never exceeds MaxRuns in the explored states.
MaxRuns == 2
\* The cycles of the abc_plan scenario: it runs 2 + 3 * (MaxCycles - 1) ticks.
MaxCycles == 20
MaxEntries == 2
MaxNestedRuns == 1
MaxSrc == 2
MaxOperands == 4

\* u32::MAX, the run_countdown of an inactive plan.
MAX == 2^Width - 1

Names == {"A", "B", "C"}

\* str::cmp on the names the model uses: the byte order of the strings.
NameRank(n) ==
    CASE n = "A" -> 1
      [] n = "B" -> 2
      [] n = "C" -> 3
      [] n = "D" -> 4
      [] OTHER -> 5

NameLess(a, b) == NameRank(a) < NameRank(b)

(***************************************************************************)
(* Behaviours.  The tests' RunCountBehaviour counts its callbacks; a user   *)
(* behaviour receives &mut Plan and may call the plan's methods from a      *)
(* callback.  hook names the callback that does so ("none" for a plain      *)
(* counting behaviour) and act the method it calls; arg is its argument.    *)
(***************************************************************************)
Hooks == {"on_entry", "on_exit", "on_prepare", "on_run"}
Acts == {"enter", "exit", "exit_children", "enter_plan", "exit_plan"}

RunCountBehaviour(hook, act, arg) ==
    [entry_count |-> 0, exit_count |-> 0, run_count |-> 0, hook |-> hook, act |-> act, arg |-> arg]

Counting == RunCountBehaviour("none", "none", "none")

\* Plan::new_stub
new_stub(name, autostart) ==
    [name |-> name,
     run_countdown |-> MAX,
     run_interval |-> 0,
     autostart |-> autostart,
     behaviour |-> <<>>,
     transitions |-> <<>>,
     plans |-> <<>>]

\* Plan::new
new(behaviour, name, run_interval, autostart) ==
    [new_stub(name, autostart) EXCEPT
        !.run_interval = run_interval,
        !.behaviour = <<behaviour>>]

\* Plan::active
active(p) == p.run_countdown < MAX

\* Transition { src, dst, predicate }
Transition(src, dst, predicate) == [src |-> src, dst |-> dst, predicate |-> predicate]

(***************************************************************************)
(* Plan::priority: slice::binary_search_by on the names.  The result is     *)
(* [ok |-> found, pos |-> index], with pos counted from 1.                  *)
(***************************************************************************)
RECURSIVE binary_search(_, _, _, _)
binary_search(plans, name, left, right) ==
    IF left >= right
    THEN [ok |-> FALSE, pos |-> left + 1]
    ELSE LET mid == left + ((right - left) \div 2)
             probe == plans[mid + 1].name
         IN IF NameLess(probe, name) THEN binary_search(plans, name, mid + 1, right)
            ELSE IF NameLess(name, probe) THEN binary_search(plans, name, left, mid)
            ELSE [ok |-> TRUE, pos |-> mid + 1]

priority(p, name) == binary_search(p.plans, name, 0, Len(p.plans))

\* Plan::get: the subplan of that name, if there is one.
get(p, name) ==
    IF priority(p, name).ok THEN <<p.plans[priority(p, name).pos]>> ELSE <<>>

\* Plan::get_mut: the same lookup, for a mutable reference.
get_mut(p, name) ==
    IF priority(p, name).ok THEN <<p.plans[priority(p, name).pos]>> ELSE <<>>

\* Vec::insert(pos, x) and Vec::remove(pos), pos counted from 1.
\* (Mutant: the new element is pushed to the end, whatever the position found.)
VecInsert_push(s, pos, x) == Append(s, x)

VecInsert(s, pos, x) == SubSeq(s, 1, pos - 1) \o <<x>> \o SubSeq(s, pos, Len(s))
VecRemove(s, pos) == SubSeq(s, 1, pos - 1) \o SubSeq(s, pos + 1, Len(s))

(***************************************************************************)
(* The built-in behaviours of behaviour.rs, records with their kind.        *)
(***************************************************************************)
EvaluateStatus(t, f) == [kind |-> "EvaluateStatus", t |-> t, f |-> f]
AllSuccessStatus == [kind |-> "AllSuccessStatus"]
AnySuccessStatus == [kind |-> "AnySuccessStatus"]
ModifyStatus(inner, override) ==
    [kind |-> "ModifyStatus", inner |-> inner, override |-> override]
MultiBehaviour(list) == [kind |-> "MultiBehaviour", list |-> list]
SequenceBehaviour == [kind |-> "SequenceBehaviour", visited |-> <<>>]
FallbackBehaviour == [kind |-> "FallbackBehaviour", visited |-> <<>>]
MaxUtilBehaviour == [kind |-> "MaxUtilBehaviour"]

\* RepeatBehaviour::new, then the public fields condition, iterations and
\* retry assigned.
RepeatBehaviour(behaviour, condition, iterations, retry) ==
    [kind |-> "RepeatBehaviour", behaviour |-> behaviour, condition |-> condition,
     iterations |-> iterations, retry |-> retry, count_down |-> 0, status |-> <<>>]

(***************************************************************************)
(* Behaviour::status and Behaviour::utility, and Plan::status and           *)
(* Plan::utility, which ask the behaviour in the slot.  A behaviour with a  *)
(* status field reports it (SetStatusBehaviour in the tests, and Repeat)    *)
(* and one with a utility field reports that (SetUtilBehaviour);            *)
(* RunCountBehaviour reports None, and the utility not overridden is 0.     *)
(***************************************************************************)
RECURSIVE evaluate(_, _, _)
RECURSIVE BehaviourStatus(_, _)
RECURSIVE BehaviourUtility(_, _)
RECURSIVE status(_)
RECURSIVE utility(_)

\* (Mutant: the success predicate is asked first.)
evaluate_status_success_first(plan, t, f) ==
    IF evaluate(t, plan, <<>>) THEN <<TRUE>>
    ELSE IF evaluate(f, plan, <<>>) THEN <<FALSE>>
    ELSE <<>>

evaluate_status(plan, t, f) ==
    IF evaluate(f, plan, <<>>) THEN <<FALSE>>
    ELSE IF evaluate(t, plan, <<>>) THEN <<TRUE>>
    ELSE <<>>

\* Option::map(|x| override.unwrap_or(!x)).
\* (Mutant: the status of the inner behaviour is passed on as it is.)
modify_status_kept(inner_status, override) == inner_status

modify_status(inner_status, override) ==
    IF inner_status = <<>> THEN <<>>
    ELSE IF override = <<>> THEN <<~inner_status[1]>> ELSE override

\* MultiBehaviour::status: the loop over the behaviours, from the i-th on.
RECURSIVE multi_status(_, _, _, _)
\* (Mutant: a behaviour without status hides a later failure.)
multi_status_none_first(list, plan, i, result) ==
    IF i > Len(list) THEN result
    ELSE IF BehaviourStatus(list[i], plan) = <<>> THEN <<>>
    ELSE IF BehaviourStatus(list[i], plan) = <<FALSE>> THEN <<FALSE>>
    ELSE multi_status(list, plan, i + 1, result)

multi_status(list, plan, i, result) ==
    IF i > Len(list) THEN result
    ELSE IF BehaviourStatus(list[i], plan) = <<FALSE>> THEN <<FALSE>>
    ELSE multi_status(list, plan, i + 1,
                      IF BehaviourStatus(list[i], plan) = <<>> THEN <<>> ELSE result)

RECURSIVE multi_utility(_, _, _)
multi_utility(list, plan, i) ==
    IF i > Len(list) THEN 0
    ELSE BehaviourUtility(list[i], plan) + multi_utility(list, plan, i + 1)

\* plans.iter().find(|p| p.active()): the first active subplan, if any.
RECURSIVE find_active(_, _)
\* (Mutant: the first subplan is taken, active or not.)
find_active_first(plans, i) == IF i > Len(plans) THEN <<>> ELSE <<plans[i]>>

find_active(plans, i) ==
    IF i > Len(plans) THEN <<>>
    ELSE IF active(plans[i]) THEN <<plans[i]>>
    ELSE find_active(plans, i + 1)

\* max_utility: the fold over (position, utility) from (0, NaN); a comparison
\* with NaN is false.
\* (Mutant: an equal utility does not replace the one found before.)
Greater_or_equal(max, x) == IF ~max.nan /\ max.utility >= x.utility THEN max ELSE x

Greater(max, x) == IF ~max.nan /\ max.utility > x.utility THEN max ELSE x

RECURSIVE fold_max(_, _, _)
fold_max(plans, i, max) ==
    IF i > Len(plans) THEN max
    ELSE fold_max(plans, i + 1,
                  Greater(max, [pos |-> i, utility |-> utility(plans[i]), nan |-> FALSE]))

\* None is <<>>, Some((plans[pos], utility)) is <<[pos, utility]>>.
max_utility(plans) ==
    IF plans = <<>> THEN <<>>
    ELSE <<fold_max(plans, 1, [pos |-> 1, utility |-> 0, nan |-> TRUE])>>

BehaviourStatus(b, plan) ==
    IF "kind" \in DOMAIN b
    THEN CASE b.kind = "EvaluateStatus" -> evaluate_status(plan, b.t, b.f)
           [] b.kind = "AllSuccessStatus" ->
                  BehaviourStatus(
                      EvaluateStatus([kind |-> "AllSuccess", args |-> <<>>],
                                     [kind |-> "AnyFailure", args |-> <<>>]), plan)
           [] b.kind = "AnySuccessStatus" ->
                  BehaviourStatus(
                      EvaluateStatus([kind |-> "AnySuccess", args |-> <<>>],
                                     [kind |-> "AllFailure", args |-> <<>>]), plan)
           [] b.kind = "ModifyStatus" ->
                  modify_status(BehaviourStatus(b.inner, plan), b.override)
           [] b.kind = "MultiBehaviour" -> multi_status(b.list, plan, 1, <<TRUE>>)
           [] b.kind = "RepeatBehaviour" -> b.status
           [] b.kind = "SequenceBehaviour" ->
                  BehaviourStatus([kind |-> "AllSuccessStatus"], plan)
           [] b.kind = "FallbackBehaviour" ->
                  BehaviourStatus([kind |-> "AnySuccessStatus"], plan)
           [] b.kind = "MaxUtilBehaviour" ->
                  IF find_active(plan.plans, 1) = <<>> THEN <<>>
                  ELSE status(find_active(plan.plans, 1)[1])
    ELSE IF "status" \in DOMAIN b THEN b.status ELSE <<>>

BehaviourUtility(b, plan) ==
    IF "kind" \in DOMAIN b
    THEN CASE b.kind = "ModifyStatus" -> BehaviourUtility(b.inner, plan)
           [] b.kind = "MultiBehaviour" -> multi_utility(b.list, plan, 1)
           [] b.kind = "RepeatBehaviour" -> BehaviourUtility(b.behaviour, plan)
           [] b.kind = "MaxUtilBehaviour" ->
                  IF max_utility(plan.plans) = <<>> THEN 0
                  ELSE max_utility(plan.plans)[1].utility
           [] OTHER -> 0
    ELSE IF "utility" \in DOMAIN b THEN b.utility ELSE 0

status(p) == IF p.behaviour = <<>> THEN <<>> ELSE BehaviourStatus(p.behaviour[1], p)

utility(p) == IF p.behaviour = <<>> THEN 0 ELSE BehaviourUtility(p.behaviour[1], p)

\* What a callback sees when it looks at the plan it was handed, as the
\* assertion in RunCountBehaviour::on_entry does.
Slot(p) == [behaviour |-> p.behaviour, status |-> status(p), utility |-> utility(p)]

(***************************************************************************)
(* The predicates of predicate.rs: a predicate is a record of its kind and  *)
(* its operands (And, Or, ... hold a list of predicates, Not holds one).    *)
(***************************************************************************)
True == [kind |-> "True", args |-> <<>>]
False == [kind |-> "False", args |-> <<>>]
And(args) == [kind |-> "And", args |-> args]
Or(args) == [kind |-> "Or", args |-> args]
Xor(args) == [kind |-> "Xor", args |-> args]
Not(arg) == [kind |-> "Not", args |-> <<arg>>]
Nand(args) == [kind |-> "Nand", args |-> args]
Nor(args) == [kind |-> "Nor", args |-> args]
Xnor(args) == [kind |-> "Xnor", args |-> args]
AllSuccess == [kind |-> "AllSuccess", args |-> <<>>]
AnySuccess == [kind |-> "AnySuccess", args |-> <<>>]
AllFailure == [kind |-> "AllFailure", args |-> <<>>]
AnyFailure == [kind |-> "AnyFailure", args |-> <<>>]

\* Option::unwrap_or.
\* (Mutant: None is taken as false, whatever the default.)
unwrap_or_false(option, default) == IF option = <<>> THEN FALSE ELSE option[1]

unwrap_or(option, default) == IF option = <<>> THEN default ELSE option[1]

\* src.iter().filter_map(|p| plan.get(p)): the subplans named in src that exist.
RECURSIVE filter_map_get(_, _)
filter_map_get(plan, src) ==
    IF src = <<>> THEN <<>>
    ELSE get(plan, Head(src)) \o filter_map_get(plan, Tail(src))

\* (Mutant: an empty src selects the active subplans only.)
Sources_active(plan, src) ==
    IF src = <<>> THEN SelectSeq(plan.plans, active) ELSE filter_map_get(plan, src)

Sources(plan, src) == IF src = <<>> THEN plan.plans ELSE filter_map_get(plan, src)

\* (Mutant: an empty src selects no subplan.)
all_success_named(plan, src, none_val) ==
    \A i \in 1..Len(filter_map_get(plan, src)) :
        unwrap_or(status(filter_map_get(plan, src)[i]), none_val)

all_success(plan, src, none_val) ==
    \A i \in 1..Len(Sources(plan, src)) :
        unwrap_or(status(Sources(plan, src)[i]), none_val)

any_success(plan, src, none_val) ==
    \E i \in 1..Len(Sources(plan, src)) :
        unwrap_or(status(Sources(plan, src)[i]), none_val)

\* iter().filter(|x| x.evaluate(plan, src)).count() and 1 & n.
count(predicates, plan, src) ==
    Cardinality({i \in 1..Len(predicates) : evaluate(predicates[i], plan, src)})

\* (Mutant: the count itself instead of its lowest bit.)
BitAnd1_all(n) == n

BitAnd1(n) == n % 2

evaluate(predicate, plan, src) ==
    CASE predicate.kind = "True" -> TRUE
      [] predicate.kind = "False" -> FALSE
      [] predicate.kind = "And" ->
             \A i \in 1..Len(predicate.args) : evaluate(predicate.args[i], plan, src)
      [] predicate.kind = "Or" ->
             \E i \in 1..Len(predicate.args) : evaluate(predicate.args[i], plan, src)
      [] predicate.kind = "Xor" -> 0 # BitAnd1(count(predicate.args, plan, src))
      [] predicate.kind = "Not" -> ~evaluate(predicate.args[1], plan, src)
      [] predicate.kind = "Nand" ->
             ~(\A i \in 1..Len(predicate.args) : evaluate(predicate.args[i], plan, src))
      [] predicate.kind = "Nor" ->
             ~(\E i \in 1..Len(predicate.args) : evaluate(predicate.args[i], plan, src))
      [] predicate.kind = "Xnor" -> 0 = BitAnd1(count(predicate.args, plan, src))
      [] predicate.kind = "AllSuccess" -> all_success(plan, src, FALSE)
      [] predicate.kind = "AnySuccess" -> any_success(plan, src, FALSE)
      [] predicate.kind = "AllFailure" -> ~any_success(plan, src, TRUE)
      [] predicate.kind = "AnyFailure" -> ~all_success(plan, src, TRUE)

(***************************************************************************)
(* Events.  who is the path of the plan from the root.                     *)
(***************************************************************************)
Ev(ev, who, info) == [ev |-> ev, who |-> who, info |-> info]

World(p) == [p |-> p, log |-> <<>>, ret |-> FALSE]

\* The world of subplan i of w.p, and w with that subplan's world put back.
Down(w, i) == [p |-> w.p.plans[i], log |-> w.log, ret |-> w.ret]
Up(w, i, c) == [p |-> [w.p EXCEPT !.plans[i] = c.p], log |-> c.log, ret |-> c.ret]

ActiveNames(p) == {p.plans[i].name : i \in {j \in 1..Len(p.plans) : active(p.plans[j])}}

RECURSIVE enter(_, _)
RECURSIVE exit(_, _, _)
RECURSIVE enter_plan(_, _, _)
RECURSIVE exit_plan(_, _, _)
RECURSIVE call(_, _, _)
RECURSIVE callback(_, _, _, _)
RECURSIVE multi_call(_, _, _, _, _)
RECURSIVE enter_autostart(_, _, _)
RECURSIVE exit_active(_, _, _)
RECURSIVE run(_, _)
RECURSIVE run_active(_, _, _)
RECURSIVE run_transitions(_, _)
RECURSIVE run_behaviour(_, _)
RECURSIVE run_gate(_, _)
RECURSIVE run_on_run(_, _)
RECURSIVE run_prepare(_, _)
RECURSIVE exit_self(_, _, _)
RECURSIVE enter_at(_, _, _, _)
RECURSIVE enter_found(_, _, _, _)
RECURSIVE exit_found(_, _, _, _)
RECURSIVE fire(_, _, _, _)
RECURSIVE fire_exit(_, _, _, _)
RECURSIVE fire_enter(_, _, _, _)
RECURSIVE drop(_, _)
RECURSIVE drop_plans(_, _, _)

(***************************************************************************)
(* The body of a behaviour callback: the counting of RunCountBehaviour and  *)
(* then, for the callback named by b.hook, the call b.act on the plan the   *)
(* callback was handed.  Returns the world and the behaviour.               *)
(***************************************************************************)
Count(b, hook) ==
    CASE hook = "on_entry" -> [b EXCEPT !.entry_count = @ + 1]
      [] hook = "on_exit" -> [b EXCEPT !.exit_count = @ + 1]
      [] hook = "on_run" -> [b EXCEPT !.run_count = @ + 1]
      [] OTHER -> b

scripted(b, w, hook, who) ==
    [b |-> Count(b, hook),
     w |-> IF b.hook # hook THEN w
           ELSE CASE b.act = "enter" -> enter(w, who)
                  [] b.act = "exit" -> exit(w, FALSE, who)
                  [] b.act = "exit_children" -> exit(w, TRUE, who)
                  [] b.act = "enter_plan" -> enter_plan(w, b.arg, who)
                  [] b.act = "exit_plan" -> exit_plan(w, b.arg, who)
                  [] b.act = "observe" ->
                         [w EXCEPT !.log = Append(@, Ev("slot", who, Slot(w.p)))]
                  [] b.act = "replace" -> [w EXCEPT !.p.behaviour = <<b.arg>>]
                  [] OTHER -> w]

(***************************************************************************)
(* The callbacks of the built-in behaviours.  Each returns the behaviour    *)
(* and the world after it, as above.                                        *)
(***************************************************************************)
Unchanged(b, w) == [b |-> b, w |-> w]

\* ModifyStatus: every callback goes to the inner behaviour.
\* (Mutant: the inner behaviour is left as it was before the callback.)
WithInner_stale(b, r) == [b |-> b, w |-> r.w]

WithInner(b, r) == [b |-> [b EXCEPT !.inner = r.b], w |-> r.w]

\* MultiBehaviour: every callback goes to each behaviour of the list in turn.
WithElement(r, i, c) == [b |-> [r.b EXCEPT !.list[i] = c.b], w |-> c.w]

multi_next(b, r, hook, who, i) ==
    multi_call([b EXCEPT !.list[i] = r.b], r.w, hook, who, i + 1)

multi_last(b, r, hook, who, i) ==
    WithElement(r, i, callback(r.b.list[i], r.w, hook, who))

\* (Mutant: the behaviours are called from the last to the first.)
multi_call_reversed(b, w, hook, who, i) ==
    IF i > Len(b.list) THEN Unchanged(b, w)
    ELSE multi_last(b, multi_call(b, w, hook, who, i + 1), hook, who, i)

multi_call(b, w, hook, who, i) ==
    IF i > Len(b.list) THEN Unchanged(b, w)
    ELSE multi_next(b, callback(b.list[i], w, hook, who), hook, who, i)

\* RepeatBehaviour.
WithBehaviour(b, r) == [b |-> [b EXCEPT !.behaviour = r.b], w |-> r.w]

\* (Mutant: the countdown is left where the last activation took it.)
Recharged_status_only(b) == [b EXCEPT !.status = <<>>]

Recharged(b) == [b EXCEPT !.status = <<>>, !.count_down = b.iterations]

Stopped(b, value) == [b EXCEPT !.status = <<value>>]

\* condition.as_ref().map(|x| x.evaluate(plan, &[])).unwrap_or(true)
Holds(condition, plan) ==
    IF condition = <<>> THEN TRUE ELSE evaluate(condition[1], plan, <<>>)

\* (Mutant: the inner behaviour is not entered again after its exit.)
repeat_reenter_skipped(r, who) == r

repeat_reenter(r, who) ==
    WithBehaviour(r.b, callback(r.b.behaviour, r.w, "on_entry", who))

repeat_cycle(r, who) ==
    repeat_reenter(
        WithBehaviour([r.b EXCEPT !.count_down = (@ - 1) % (2 ^ Width)],
                      callback(r.b.behaviour, r.w, "on_exit", who)), who)

\* (Mutant: any status of the inner behaviour stops the repetition.)
repeat_ran_once(r, inner_status, who) ==
    IF inner_status = <<>> THEN r
    ELSE Unchanged(Stopped(r.b, r.b.retry), r.w)

\* inner_status is self.behaviour.status(plan) after the inner on_run.
repeat_ran(r, inner_status, who) ==
    IF inner_status = <<>> THEN r
    ELSE IF inner_status[1] # r.b.retry THEN repeat_cycle(r, who)
    ELSE Unchanged(Stopped(r.b, r.b.retry), r.w)

repeat_run(r, who) == repeat_ran(r, BehaviourStatus(r.b.behaviour, r.w.p), who)

\* (Mutant: the countdown is not looked at.)
repeat_prepare_uncounted(b, w, who) ==
    IF b.status # <<>> THEN Unchanged(b, w)
    ELSE IF ~Holds(b.condition, w.p)
    THEN Unchanged(Stopped(b, ~b.retry), w)
    ELSE WithBehaviour(b, callback(b.behaviour, w, "on_prepare", who))

\* (Mutant: the inner behaviour is prepared before the checks.)
repeat_prepare_eager(b, w, who) ==
    IF b.status # <<>> THEN Unchanged(b, w)
    ELSE IF b.count_down = 0 \/ ~Holds(b.condition, w.p)
    THEN WithBehaviour(Stopped(b, ~b.retry), callback(b.behaviour, w, "on_prepare", who))
    ELSE WithBehaviour(b, callback(b.behaviour, w, "on_prepare", who))

repeat_prepare(b, w, who) ==
    IF b.status # <<>> THEN Unchanged(b, w)
    ELSE IF b.count_down = 0 \/ ~Holds(b.condition, w.p)
    THEN Unchanged(Stopped(b, ~b.retry), w)
    ELSE WithBehaviour(b, callback(b.behaviour, w, "on_prepare", who))

repeat(b, w, hook, who) ==
    CASE hook = "on_entry" ->
             WithBehaviour(Recharged(b), callback(b.behaviour, w, hook, who))
      [] hook = "on_exit" -> WithBehaviour(b, callback(b.behaviour, w, hook, who))
      [] hook = "on_prepare" -> repeat_prepare(b, w, who)
      [] hook = "on_run" ->
             IF b.status # <<>> THEN Unchanged(b, w)
             ELSE repeat_run(WithBehaviour(b, callback(b.behaviour, w, hook, who)), who)

\* check_visited_status_and_jump: the first visited name whose plan is
\* inactive with a status of jump_val or none (0 when there is none).
Jumps(plan, name, jump_val) ==
    /\ get(plan, name) # <<>>
    /\ ~active(get(plan, name)[1])
    /\ status(get(plan, name)[1]) \in {<<>>, <<jump_val>>}

RECURSIVE position(_, _, _, _)
position(visited, plan, jump_val, i) ==
    IF i > Len(visited) THEN 0
    ELSE IF Jumps(plan, visited[i], jump_val) THEN i
    ELSE position(visited, plan, jump_val, i + 1)

jump(b, w, pos, who) ==
    IF pos = 0 THEN Unchanged(b, w)
    ELSE [b |-> [b EXCEPT !.visited = SubSeq(@, 1, pos - 1)],
          w |-> enter_plan(exit(w, TRUE, who), b.visited[pos], who)]

\* (Mutant: the active subplan is appended whatever the last entry.)
Visit_always(b, found) ==
    IF found = <<>> THEN b ELSE [b EXCEPT !.visited = Append(@, found[1].name)]

Visit(b, found) ==
    IF found = <<>> THEN b
    ELSE IF b.visited # <<>> /\ b.visited[Len(b.visited)] = found[1].name THEN b
    ELSE [b EXCEPT !.visited = Append(@, found[1].name)]

track(r) == Unchanged(Visit(r.b, find_active(r.w.p.plans, 1)), r.w)

check_visited_status_and_jump(b, w, jump_val, who) ==
    track(jump(b, w, position(b.visited, w.p, jump_val, 1), who))

\* MaxUtilBehaviour::on_prepare.
switch(b, w, best, found, who) ==
    IF found # <<>> /\ found[1].name = best THEN Unchanged(b, w)
    ELSE Unchanged(b, enter_plan(IF found # <<>> THEN exit_plan(w, found[1].name, who)
                                 ELSE w, best, who))

\* (Mutant: the best subplan is entered, the active one is left as it is.)
max_util_no_exit(b, w, who) ==
    IF max_utility(w.p.plans) = <<>> THEN Unchanged(b, w)
    ELSE Unchanged(b, enter_plan(w, w.p.plans[max_utility(w.p.plans)[1].pos].name, who))

max_util(b, w, who) ==
    IF max_utility(w.p.plans) = <<>> THEN Unchanged(b, w)
    ELSE switch(b, w, w.p.plans[max_utility(w.p.plans)[1].pos].name,
                find_active(w.p.plans, 1), who)

builtin(b, w, hook, who) ==
    CASE b.kind = "ModifyStatus" -> WithInner(b, callback(b.inner, w, hook, who))
      [] b.kind = "MultiBehaviour" -> multi_call(b, w, hook, who, 1)
      [] b.kind = "RepeatBehaviour" -> repeat(b, w, hook, who)
      [] b.kind \in {"SequenceBehaviour", "FallbackBehaviour"} /\ hook = "on_prepare" ->
             check_visited_status_and_jump(b, w, b.kind = "FallbackBehaviour", who)
      [] b.kind = "MaxUtilBehaviour" /\ hook = "on_prepare" -> max_util(b, w, who)
      [] OTHER -> Unchanged(b, w)

\* A callback of the behaviour b: a built-in behaviour, a scripted one, or one
\* that keeps the trait's empty callbacks.
callback(b, w, hook, who) ==
    IF "kind" \in DOMAIN b THEN builtin(b, w, hook, who)
    ELSE IF "hook" \in DOMAIN b THEN scripted(b, w, hook, who)
    ELSE Unchanged(b, w)

(***************************************************************************)
(* Plan::call: the behaviour is taken out of the plan for the time of the   *)
(* callback and put back after it; nothing is called when the slot is       *)
(* empty.  The event of a call carries the behaviour's entry_count minus    *)
(* its exit_count at the time of the call.                                  *)
(***************************************************************************)
Take(w, hook, who, b) ==
    [w EXCEPT !.p.behaviour = <<>>,
              !.log = Append(@, Ev(hook, who, IF "entry_count" \in DOMAIN b
                                              THEN b.entry_count - b.exit_count
                                              ELSE 0))]

\* (Mutant: the slot is left as the callback left it.)
PutBack_skipped(r) == r.w

PutBack(r) == [r.w EXCEPT !.p.behaviour = <<r.b>>]

call(w, hook, who) ==
    IF w.p.behaviour = <<>> THEN w
    ELSE PutBack(callback(w.p.behaviour[1], Take(w, hook, who, w.p.behaviour[1]), hook, who))

(***************************************************************************)
(* Plan::enter                                                             *)
(***************************************************************************)
Returning(w, ret) == [w EXCEPT !.ret = ret]

\* (Mutant: every inactive subplan is entered, autostart or not.)
enter_autostart_all(w, i, who) ==
    IF i > Len(w.p.plans) THEN w
    ELSE enter_autostart(
             IF ~active(w.p.plans[i])
             THEN Up(w, i, enter(Down(w, i), Append(who, w.p.plans[i].name)))
             ELSE w, i + 1, who)

enter_autostart(w, i, who) ==
    IF i > Len(w.p.plans) THEN w
    ELSE enter_autostart(
             IF w.p.plans[i].autostart /\ ~active(w.p.plans[i])
             THEN Up(w, i, enter(Down(w, i), Append(who, w.p.plans[i].name)))
             ELSE w, i + 1, who)

\* (Mutant: the plan is entered again when it is already active.)
enter_again(w, who) ==
    Returning(enter_autostart(
        call([w EXCEPT !.p.run_countdown = 0], "on_entry", who), 1, who), TRUE)

enter(w, who) ==
    IF active(w.p) THEN Returning(w, FALSE)
    ELSE Returning(enter_autostart(
             call([w EXCEPT !.p.run_countdown = 0], "on_entry", who), 1, who), TRUE)

(***************************************************************************)
(* Plan::exit                                                              *)
(***************************************************************************)
exit_active(w, i, who) ==
    IF i > Len(w.p.plans) THEN w
    ELSE exit_active(
             IF active(w.p.plans[i])
             THEN Up(w, i, exit(Down(w, i), FALSE, Append(who, w.p.plans[i].name)))
             ELSE w, i + 1, who)

Deactivated(w) == [w EXCEPT !.p.run_countdown = MAX]

exit_self(w, exclude_self, who) ==
    IF ~exclude_self THEN Deactivated(call(w, "on_exit", who)) ELSE w

\* (Mutant: the plan's own on_exit comes before its subplans are exited.)
exit_self_first(w, exclude_self, who) ==
    IF ~active(w.p) THEN Returning(w, FALSE)
    ELSE Returning(exit_active(exit_self(w, exclude_self, who), 1, who), TRUE)

exit(w, exclude_self, who) ==
    IF ~active(w.p) THEN Returning(w, FALSE)
    ELSE Returning(exit_self(exit_active(w, 1, who), exclude_self, who), TRUE)

(***************************************************************************)
(* Plan::enter_plan and Plan::exit_plan.  ret is TRUE when the method       *)
(* returns Some(plan) and FALSE when it returns None.                       *)
(***************************************************************************)
enter_at(w, pos, name, who) == Up(w, pos, enter(Down(w, pos), Append(who, name)))

enter_found(w, found, name, who) ==
    enter_at(IF found.ok THEN w
             ELSE [w EXCEPT !.p.plans = VecInsert(@, found.pos, new_stub(name, FALSE))],
             found.pos, name, who)

\* (Mutant: the subplan is entered under an inactive plan as well.)
enter_plan_always(w, name, who) ==
    Returning(enter_found(w, priority(w.p, name), name, who), TRUE)

enter_plan(w, name, who) ==
    IF ~active(w.p) THEN Returning(w, FALSE)
    ELSE Returning(enter_found(w, priority(w.p, name), name, who), TRUE)

exit_found(w, found, name, who) ==
    IF ~found.ok THEN Returning(w, FALSE)
    ELSE Returning(Up(w, found.pos, exit(Down(w, found.pos), FALSE, Append(who, name))), TRUE)

exit_plan(w, name, who) == exit_found(w, priority(w.p, name), name, who)

(***************************************************************************)
(* Drop for Plan: an active plan gets on_exit; then its fields are dropped, *)
(* the subplans among them, each through its own Drop.  The "drop" event    *)
(* marks the start of the drop and says whether the plan was active.        *)
(***************************************************************************)
WithLog(w, c) == [w EXCEPT !.log = c.log]

\* (Mutant: the subplans are forgotten without being dropped.)
drop_plans_leak(w, i, who) == w

drop_plans(w, i, who) ==
    IF i > Len(w.p.plans) THEN w
    ELSE drop_plans(WithLog(w, drop(Down(w, i), Append(who, w.p.plans[i].name))), i + 1, who)

Dropping(w, who) == [w EXCEPT !.log = Append(@, Ev("drop", who, active(w.p)))]

\* (Mutant: the plan is forgotten without on_exit.)
drop_forget(w, who) == Dropping(w, who)

drop(w, who) ==
    drop_plans(IF active(w.p) THEN call(Dropping(w, who), "on_exit", who)
               ELSE Dropping(w, who), 1, who)

(***************************************************************************)
(* Plan::insert.  The subplan it overwrites is dropped by the assignment.   *)
(***************************************************************************)
Detached(plan, events) == [p |-> plan, log |-> events, ret |-> FALSE]

\* The overwrite or the insertion of the plan c.p at the place `found`.
insert_sorted(w, c, found, who) ==
    IF found.ok
    THEN [p |-> [w.p EXCEPT !.plans[found.pos] = c.p],
          log |-> drop(Detached(w.p.plans[found.pos], c.log), Append(who, c.p.name)).log,
          ret |-> TRUE]
    ELSE [p |-> [w.p EXCEPT !.plans = VecInsert(@, found.pos, c.p)],
          log |-> c.log, ret |-> TRUE]

\* (Mutant: the child is placed as it is, neither entered nor exited.)
insert_as_is(w, plan, who) ==
    insert_sorted(w, Detached(plan, w.log), priority(w.p, plan.name), who)

insert(w, plan, who) ==
    insert_sorted(w,
        IF active(w.p)
        THEN IF active(plan) THEN Detached(plan, w.log)
             ELSE IF plan.autostart THEN enter(Detached(plan, w.log), Append(who, plan.name))
             ELSE Detached(plan, w.log)
        ELSE IF active(plan) THEN exit(Detached(plan, w.log), FALSE, Append(who, plan.name))
        ELSE Detached(plan, w.log),
        priority(w.p, plan.name), who)

(***************************************************************************)
(* Plan::remove, followed by the drop of the plan it returns.  ret is TRUE  *)
(* when remove returns Some(plan).                                          *)
(***************************************************************************)
\* (Mutant: the subplan at the place found is removed, of that name or not.)
remove_nearest(w, found, name, who) ==
    IF found.pos > Len(w.p.plans) THEN Returning(w, FALSE)
    ELSE [p |-> [w.p EXCEPT !.plans = VecRemove(@, found.pos)],
          log |-> drop(Detached(w.p.plans[found.pos], w.log), Append(who, name)).log,
          ret |-> TRUE]

remove_found(w, found, name, who) ==
    IF ~found.ok THEN Returning(w, FALSE)
    ELSE [p |-> [w.p EXCEPT !.plans = VecRemove(@, found.pos)],
          log |-> drop(Detached(w.p.plans[found.pos], w.log), Append(who, name)).log,
          ret |-> TRUE]

remove(w, name, who) == remove_found(w, priority(w.p, name), name, who)

(***************************************************************************)
(* Plan::run, one tick.                                                    *)
(***************************************************************************)
InSeq(x, s) == \E i \in 1..Len(s) : s[i] = x

\* (Mutant: every src is exited, those named in dst too.)
fire_exit_all(w, t, i, who) ==
    IF i > Len(t.src) THEN w
    ELSE fire_exit(exit_plan(w, t.src[i], who), t, i + 1, who)

\* t.src.iter().filter(|p| !t.dst.contains(p)).for_each(|p| self.exit_plan(p))
fire_exit(w, t, i, who) ==
    IF i > Len(t.src) THEN w
    ELSE fire_exit(IF ~InSeq(t.src[i], t.dst) THEN exit_plan(w, t.src[i], who) ELSE w,
                   t, i + 1, who)

\* t.dst.iter().filter(|p| !t.src.contains(p)).for_each(|p| self.enter_plan(p))
fire_enter(w, t, i, who) ==
    IF i > Len(t.dst) THEN w
    ELSE fire_enter(IF ~InSeq(t.dst[i], t.src) THEN enter_plan(w, t.dst[i], who) ELSE w,
                    t, i + 1, who)

\* The "transition" and "fired" events open and close a fire; each carries the
\* transition and the names of the subplans active at that moment.
Mark(w, ev, t, who) ==
    [w EXCEPT !.log = Append(@, Ev(ev, who,
                          [src |-> t.src, dst |-> t.dst, active |-> ActiveNames(w.p)]))]

\* The for_each over the transitions the filter kept.
\* (Mutant: a transition whose src is no longer active is passed over.)
fire_if_active(w, ts, k, who) ==
    IF k > Len(ts) THEN w
    ELSE IF \E i \in 1..Len(ts[k].src) : ts[k].src[i] \notin ActiveNames(w.p)
    THEN fire(w, ts, k + 1, who)
    ELSE fire(Mark(fire_enter(fire_exit(Mark(w, "transition", ts[k], who),
                                        ts[k], 1, who),
                              ts[k], 1, who),
                   "fired", ts[k], who),
              ts, k + 1, who)

fire(w, ts, k, who) ==
    IF k > Len(ts) THEN w
    ELSE fire(Mark(fire_enter(fire_exit(Mark(w, "transition", ts[k], who),
                                        ts[k], 1, who),
                              ts[k], 1, who),
                   "fired", ts[k], who),
              ts, k + 1, who)

\* plans.iter_mut().filter(|plan| plan.active()).for_each(|plan| plan.run())
\* (Mutant: run is called on every subplan, active or not.)
run_active_all(w, i, who) ==
    IF i > Len(w.p.plans) THEN w
    ELSE run_active(Up(w, i, run(Down(w, i), Append(who, w.p.plans[i].name))), i + 1, who)

run_active(w, i, who) ==
    IF i > Len(w.p.plans) THEN w
    ELSE run_active(IF active(w.p.plans[i])
                    THEN Up(w, i, run(Down(w, i), Append(who, w.p.plans[i].name)))
                    ELSE w, i + 1, who)

\* run_countdown -= 1 on a u32: 0 wraps to u32::MAX in a release build.
\* (Mutant: the countdown counts up.)
Decrement_up(c) == (c + 1) % (2^Width)

Decrement(c) == (c - 1) % (2^Width)

\* The "run" event opens a plan's run and carries the snapshot of the active
\* subplans; the "ran" event closes it.
Running(w, who) == [w EXCEPT !.log = Append(@, Ev("run", who, ActiveNames(w.p)))]

Ran(w, who) == [w EXCEPT !.log = Append(@, Ev("ran", who, <<>>))]

\* The filter over the detached transitions, against the snapshot active_plans.
Enabled(transitions, active_plans, plan) ==
    SelectSeq(transitions,
        LAMBDA t : /\ \A i \in 1..Len(t.src) : t.src[i] \in active_plans
                   /\ evaluate(t.predicate, plan, t.src))

Reattach(w, transitions) == [w EXCEPT !.p.transitions = transitions]

\* The transition pass of run: the snapshot of the active subplans, the filter
\* over the detached transition list, the fires, and the list put back.
run_transitions(w, who) ==
    Reattach(fire(Running([w EXCEPT !.p.transitions = <<>>], who),
                  Enabled(w.p.transitions, ActiveNames(w.p),
                          [w.p EXCEPT !.transitions = <<>>]),
                  1, who),
             w.p.transitions)

run_prepare(w, who) ==
    IF w.p.run_interval > 0 /\ w.p.run_countdown = 0
    THEN call(w, "on_prepare", who)
    ELSE w

Reload(w) == [w EXCEPT !.p.run_countdown = w.p.run_interval]

run_on_run(w, who) ==
    IF w.p.run_countdown = 0 THEN Reload(call(w, "on_run", who)) ELSE w

Countdown(w) == [w EXCEPT !.p.run_countdown = Decrement(@)]

\* (Mutant: the countdown is not decremented on the tick of on_run.)
run_gate_late(w, who) ==
    IF w.p.run_interval = 0 THEN w
    ELSE IF w.p.run_countdown = 0 THEN run_on_run(w, who)
    ELSE Countdown(w)

\* The interval gate: on_run when the countdown is at 0, then the decrement.
run_gate(w, who) ==
    IF w.p.run_interval = 0 THEN w ELSE Countdown(run_on_run(w, who))

\* (Mutant: on_run is called before the subplans run.)
run_behaviour_first(w, who) ==
    IF ~active(w.p) THEN Ran(w, who)
    ELSE Ran(run_active(run_gate(w, who), 1, who), who)

\* (Mutant: the tick goes on whether on_prepare has exited the plan or not.)
run_behaviour_unchecked(w, who) == Ran(run_gate(run_active(w, 1, who), who), who)

\* The rest of run after on_prepare: the subplans' run, then the interval gate.
run_behaviour(w, who) ==
    IF ~active(w.p) THEN Ran(w, who)
    ELSE Ran(run_gate(run_active(w, 1, who), who), who)

run(w, who) ==
    run_behaviour(run_prepare(run_transitions(enter(w, who), who), who), who)

(***************************************************************************)
(* The plans of a tree, with their paths.                                   *)
(***************************************************************************)
RECURSIVE Nodes(_, _)
Nodes(p, who) ==
    {[plan |-> p, who |-> who, parent_active |-> TRUE, is_root |-> TRUE]}
    \cup UNION {{[n EXCEPT !.parent_active = IF n.who = Append(who, p.plans[i].name)
                                              THEN active(p) ELSE @,
                            !.is_root = FALSE]
                    : n \in Nodes(p.plans[i], Append(who, p.plans[i].name))}
                : i \in 1..Len(p.plans)}

AllNodes == Nodes(root, <<"root">>)

\* No behaviour of the tree has counted more than MaxCount entries or exits.
WithinCount(p) ==
    \A n \in Nodes(p, <<>>) :
        n.plan.behaviour # <<>> =>
            /\ n.plan.behaviour[1].entry_count <= MaxCount
            /\ n.plan.behaviour[1].exit_count <= MaxCount

\* No behaviour of the tree has counted more than MaxRuns runs.
WithinRuns(p) ==
    \A n \in Nodes(p, <<>>) :
        n.plan.behaviour # <<>> => n.plan.behaviour[1].run_count <= MaxRuns

(***************************************************************************)
(* The trees and the arguments of the operations the model explores.       *)
(***************************************************************************)
ScriptArg == "B"

Scripted == {RunCountBehaviour(h, a, ScriptArg) : h \in Hooks, a \in Acts}

TransitionLists ==
    { <<>>,
      <<Transition(<<"A">>, <<"B">>, True)>>,
      <<Transition(<<"A", "B">>, <<"B", "C">>, True)>>,
      <<Transition(<<"A">>, <<"B">>, True), Transition(<<"A">>, <<"A", "C">>, True)>>,
      <<Transition(<<"A">>, <<"B">>, False), Transition(<<"B">>, <<"A">>, True)>> }

\* The root plans: new(behaviour, "root", run_interval, true) with a list of
\* transitions assigned to its public field.
CountingRoots ==
    {[new(Counting, "root", 1, TRUE) EXCEPT !.transitions = ts] : ts \in TransitionLists}
    \cup {new(Counting, "root", i, TRUE) : i \in 0..MaxInterval}

ScriptedRoots == {new(b, "root", 1, TRUE) : b \in Scripted}

\* What the user passes to insert: a plan from new or new_stub, entered first or not.
InsertNames == {"A", "B"}

PlainPlans == {new(Counting, n, 1, a) : n \in InsertNames, a \in BOOLEAN}

Entered(plans) == {enter(World(c), <<"root", c.name>>).p : c \in plans}

InsertArgs ==
    {new(Counting, "A", 1, TRUE), new(Counting, "B", 1, FALSE)}
    \cup Entered({new(Counting, "A", 1, TRUE)})
    \cup {new_stub("B", FALSE), new(Counting, "B", 2, TRUE), new(Counting, "A", 0, FALSE),
          new(RunCountBehaviour("on_run", "exit", ScriptArg), "A", 1, TRUE),
          new(RunCountBehaviour("on_prepare", "enter_plan", ScriptArg), "B", 1, FALSE)}

TracedInsertArgs == PlainPlans \cup Entered(PlainPlans)

NoOp == [name |-> "new", arg |-> <<>>, ret |-> FALSE]

\* The state after the operation `name` with argument `arg` took the root's
\* world to w: <<root, log, op>>, the events and the call kept when traced.
Done(traced, name, arg, w) ==
    <<w.p,
      IF traced THEN w.log ELSE <<>>,
      IF traced THEN [name |-> name, arg |-> arg, ret |-> w.ret] ELSE NoOp>>

DoRun(traced) == Done(traced, "run", <<>>, run(World(root), <<"root">>))

DoEnter(traced) == Done(traced, "enter", <<>>, enter(World(root), <<"root">>))

DoExit(traced, exclude_self) ==
    Done(traced, "exit", exclude_self, exit(World(root), exclude_self, <<"root">>))

DoEnterPlan(traced, name) ==
    Done(traced, "enter_plan", name, enter_plan(World(root), name, <<"root">>))

DoExitPlan(traced, name) ==
    Done(traced, "exit_plan", name, exit_plan(World(root), name, <<"root">>))

DoInsert(traced, plan) ==
    Done(traced, "insert", plan, insert(World(root), plan, <<"root">>))

DoRemove(traced, name) ==
    Done(traced, "remove", name, remove(World(root), name, <<"root">>))

(***************************************************************************)
(* Spec: the operations of Plan on a root plan, from any of the root plans  *)
(* above, the behaviours that call back into their plan among them.         *)
(***************************************************************************)
Init ==
    /\ root \in CountingRoots \cup ScriptedRoots
    /\ log = <<>>
    /\ op = NoOp
    /\ ticks = 0
    /\ late = 0

Run ==
    /\ \E s \in {DoRun(FALSE)} :
          /\ WithinCount(s[1]) /\ WithinRuns(s[1])
          /\ root' = s[1]
          /\ log' = s[2]
          /\ op' = s[3]
    /\ UNCHANGED <<ticks, late>>

Enter ==
    /\ \E s \in {DoEnter(FALSE)} :
          /\ WithinCount(s[1]) /\ WithinRuns(s[1])
          /\ root' = s[1]
          /\ log' = s[2]
          /\ op' = s[3]
    /\ UNCHANGED <<ticks, late>>

Exit ==
    /\ \E exclude_self \in BOOLEAN : \E s \in {DoExit(FALSE, exclude_self)} :
          /\ WithinCount(s[1]) /\ WithinRuns(s[1])
          /\ root' = s[1]
          /\ log' = s[2]
          /\ op' = s[3]
    /\ UNCHANGED <<ticks, late>>

EnterPlan ==
    /\ \E name \in Names : \E s \in {DoEnterPlan(FALSE, name)} :
          /\ WithinCount(s[1]) /\ WithinRuns(s[1])
          /\ root' = s[1]
          /\ log' = s[2]
          /\ op' = s[3]
    /\ UNCHANGED <<ticks, late>>

ExitPlan ==
    /\ \E name \in Names : \E s \in {DoExitPlan(FALSE, name)} :
          /\ WithinCount(s[1]) /\ WithinRuns(s[1])
          /\ root' = s[1]
          /\ log' = s[2]
          /\ op' = s[3]
    /\ UNCHANGED <<ticks, late>>

Insert ==
    /\ \E plan \in InsertArgs : \E s \in {DoInsert(FALSE, plan)} :
          /\ WithinCount(s[1]) /\ WithinRuns(s[1])
          /\ root' = s[1]
          /\ log' = s[2]
          /\ op' = s[3]
    /\ UNCHANGED <<ticks, late>>

Remove ==
    /\ \E name \in Names : \E s \in {DoRemove(FALSE, name)} :
          /\ WithinCount(s[1]) /\ WithinRuns(s[1])
          /\ root' = s[1]
          /\ log' = s[2]
          /\ op' = s[3]
    /\ UNCHANGED <<ticks, late>>

Next == Run \/ Enter \/ Exit \/ EnterPlan \/ ExitPlan \/ Insert \/ Remove

Spec == Init /\ [][Next]_vars

(***************************************************************************)
(* SpecTrace: the same operations on a root with a counting behaviour, with *)
(* the events of each operation kept in log and the call in op.             *)
(***************************************************************************)
InitTrace ==
    /\ root \in CountingRoots
    /\ log = <<>>
    /\ op = NoOp
    /\ ticks = 0
    /\ late = 0

TracedRun ==
    /\ \E s \in {DoRun(TRUE)} :
          /\ WithinCount(s[1]) /\ WithinRuns(s[1])
          /\ root' = s[1]
          /\ log' = s[2]
          /\ op' = s[3]
    /\ UNCHANGED <<ticks, late>>

TracedEnter ==
    /\ \E s \in {DoEnter(TRUE)} :
          /\ WithinCount(s[1]) /\ WithinRuns(s[1])
          /\ root' = s[1]
          /\ log' = s[2]
          /\ op' = s[3]
    /\ UNCHANGED <<ticks, late>>

TracedExit ==
    /\ \E exclude_self \in BOOLEAN : \E s \in {DoExit(TRUE, exclude_self)} :
          /\ WithinCount(s[1]) /\ WithinRuns(s[1])
          /\ root' = s[1]
          /\ log' = s[2]
          /\ op' = s[3]
    /\ UNCHANGED <<ticks, late>>

TracedEnterPlan ==
    /\ \E name \in Names : \E s \in {DoEnterPlan(TRUE, name)} :
          /\ WithinCount(s[1]) /\ WithinRuns(s[1])
          /\ root' = s[1]
          /\ log' = s[2]
          /\ op' = s[3]
    /\ UNCHANGED <<ticks, late>>

TracedExitPlan ==
    /\ \E name \in Names : \E s \in {DoExitPlan(TRUE, name)} :
          /\ WithinCount(s[1]) /\ WithinRuns(s[1])
          /\ root' = s[1]
          /\ log' = s[2]
          /\ op' = s[3]
    /\ UNCHANGED <<ticks, late>>

TracedInsert ==
    /\ \E plan \in TracedInsertArgs : \E s \in {DoInsert(TRUE, plan)} :
          /\ WithinCount(s[1]) /\ WithinRuns(s[1])
          /\ root' = s[1]
          /\ log' = s[2]
          /\ op' = s[3]
    /\ UNCHANGED <<ticks, late>>

TracedRemove ==
    /\ \E name \in Names : \E s \in {DoRemove(TRUE, name)} :
          /\ WithinCount(s[1]) /\ WithinRuns(s[1])
          /\ root' = s[1]
          /\ log' = s[2]
          /\ op' = s[3]
    /\ UNCHANGED <<ticks, late>>

NextTrace ==
    TracedRun \/ TracedEnter \/ TracedExit \/ TracedEnterPlan \/ TracedExitPlan
    \/ TracedInsert \/ TracedRemove

SpecTrace == InitTrace /\ [][NextTrace]_vars

(***************************************************************************)
(* SpecInterval: a root with run_interval N over an autostart subplan "A"   *)
(* with run_interval M and a subplan "B" with run_interval MaxInterval that *)
(* enter_plan enters between two ticks.  The root is run tick after tick    *)
(* and may be exited; ticks counts the run() calls on the root since its    *)
(* entry, which "A" shares, and late those on "B" since its entry.          *)
(***************************************************************************)
IntervalTree(n, m) ==
    insert(insert(World(new(Counting, "root", n, TRUE)),
                  new(Counting, "A", m, TRUE), <<"root">>),
           new(Counting, "B", MaxInterval, FALSE), <<"root">>).p

InitInterval ==
    /\ root \in {IntervalTree(n, m) : n \in 0..MaxInterval, m \in 0..MaxInterval}
    /\ log = <<>>
    /\ op = NoOp
    /\ ticks = 0
    /\ late = 0

IntervalTick ==
    /\ ticks < MaxTicks
    /\ \E s \in {DoRun(TRUE)} :
          /\ WithinCount(s[1])
          /\ root' = s[1]
          /\ log' = s[2]
          /\ op' = s[3]
    /\ ticks' = ticks + 1
    /\ late' = IF active(get(root, "B")[1]) THEN late + 1 ELSE 0

IntervalEnterB ==
    /\ active(root)
    /\ ~active(get(root, "B")[1])
    /\ \E s \in {DoEnterPlan(TRUE, "B")} :
          /\ WithinCount(s[1])
          /\ root' = s[1]
          /\ log' = s[2]
          /\ op' = s[3]
    /\ late' = 0
    /\ UNCHANGED ticks

IntervalExit ==
    /\ active(root)
    /\ \E s \in {DoExit(TRUE, FALSE)} :
          /\ root' = s[1]
          /\ log' = s[2]
          /\ op' = s[3]
    /\ ticks' = 0
    /\ late' = 0

NextInterval == IntervalTick \/ IntervalEnterB \/ IntervalExit

SpecInterval == InitInterval /\ [][NextInterval]_vars

(***************************************************************************)
(* SpecCycle: the tree of abc_plan, run tick after tick and then exited, as *)
(* in the test cycle_plans.                                                 *)
(***************************************************************************)
new_plan(name, autostart) == new(Counting, name, 1, autostart)

abc_plan ==
    insert(insert(insert(insert(
        World([new_plan("root", TRUE) EXCEPT !.transitions =
                  << Transition(<<"A">>, <<"B">>, True),
                     Transition(<<"B">>, <<"C">>, True),
                     Transition(<<"C">>, <<"A">>, True) >>]),
        new_plan("A", TRUE), <<"root">>),
        new_plan("B", FALSE), <<"root">>),
        new_plan("C", FALSE), <<"root">>),
        new_plan("D", FALSE), <<"root">>).p

InitCycle ==
    /\ root = abc_plan
    /\ log = <<>>
    /\ op = NoOp
    /\ ticks = 0
    /\ late = 0

CycleTick ==
    /\ op.name # "exit"
    /\ ticks < 2 + 3 * (MaxCycles - 1)
    /\ \E s \in {DoRun(TRUE)} :
          /\ root' = s[1]
          /\ op' = s[3]
    /\ log' = <<>>
    /\ ticks' = ticks + 1
    /\ UNCHANGED late

CycleExit ==
    /\ op.name # "exit"
    /\ \E s \in {DoExit(TRUE, FALSE)} :
          /\ root' = s[1]
          /\ op' = s[3]
    /\ log' = <<>>
    /\ UNCHANGED <<ticks, late>>

NextCycle == CycleTick \/ CycleExit

SpecCycle == InitCycle /\ [][NextCycle]_vars

(***************************************************************************)
(* SpecSorted: the test sorted_insert with the root entered at some point:  *)
(* fresh plans from new_plan named "A", "B", "C" are inserted in any order  *)
(* and any number of times, the root is entered once, and exited.           *)
(***************************************************************************)
InitSorted ==
    /\ root = new_plan("root", TRUE)
    /\ log = <<>>
    /\ op = NoOp
    /\ ticks = 0
    /\ late = 0

SortedEnter ==
    /\ root.behaviour[1].entry_count = 0
    /\ \E s \in {DoEnter(TRUE)} :
          /\ root' = s[1]
          /\ log' = s[2]
          /\ op' = s[3]
    /\ UNCHANGED <<ticks, late>>

SortedInsert ==
    /\ \E name \in Names, autostart \in BOOLEAN :
          \E s \in {DoInsert(TRUE, new_plan(name, autostart))} :
             /\ root' = s[1]
             /\ log' = s[2]
             /\ op' = s[3]
    /\ UNCHANGED <<ticks, late>>

SortedExit ==
    /\ \E s \in {DoExit(TRUE, FALSE)} :
          /\ root' = s[1]
          /\ log' = s[2]
          /\ op' = s[3]
    /\ UNCHANGED <<ticks, late>>

NextSorted == SortedEnter \/ SortedInsert \/ SortedExit

SpecSorted == InitSorted /\ [][NextSorted]_vars

(***************************************************************************)
(* SpecNested: a tree two levels deep, built from new, new_stub and insert  *)
(* with every combination of autostart flags, on whose root enter, exit,    *)
(* enter_plan, exit_plan and remove are called, and run MaxNestedRuns times.*)
(***************************************************************************)
With(plan, child) == insert(World(plan), child, <<>>).p

NestedTree(a, aa, b, bc) ==
    With(With(new(Counting, "root", MaxInterval, TRUE),
              With(new(Counting, "A", 1, a), new(Counting, "A", 1, aa))),
         With(new_stub("B", b), new(Counting, "C", 1, bc)))

NestedTrees ==
    {NestedTree(a, aa, b, bc) : a \in BOOLEAN, aa \in BOOLEAN, b \in BOOLEAN, bc \in BOOLEAN}

\* No behaviour of the tree has counted more than MaxEntries entries.
WithinEntries(p) ==
    \A n \in Nodes(p, <<>>) :
        n.plan.behaviour # <<>> => n.plan.behaviour[1].entry_count <= MaxEntries

InitNested ==
    /\ root \in NestedTrees
    /\ log = <<>>
    /\ op = NoOp
    /\ ticks = 0
    /\ late = 0

NestedEnter ==
    /\ \E s \in {DoEnter(TRUE)} :
          /\ WithinEntries(s[1])
          /\ root' = s[1]
          /\ log' = s[2]
          /\ op' = s[3]
    /\ UNCHANGED <<ticks, late>>

NestedExit ==
    /\ \E exclude_self \in BOOLEAN : \E s \in {DoExit(TRUE, exclude_self)} :
          /\ root' = s[1]
          /\ log' = s[2]
          /\ op' = s[3]
    /\ UNCHANGED <<ticks, late>>

NestedEnterPlan ==
    /\ \E name \in Names : \E s \in {DoEnterPlan(TRUE, name)} :
          /\ WithinEntries(s[1])
          /\ root' = s[1]
          /\ log' = s[2]
          /\ op' = s[3]
    /\ UNCHANGED <<ticks, late>>

NestedExitPlan ==
    /\ \E name \in Names : \E s \in {DoExitPlan(TRUE, name)} :
          /\ root' = s[1]
          /\ log' = s[2]
          /\ op' = s[3]
    /\ UNCHANGED <<ticks, late>>

NestedRemove ==
    /\ \E name \in Names : \E s \in {DoRemove(TRUE, name)} :
          /\ root' = s[1]
          /\ log' = s[2]
          /\ op' = s[3]
    /\ UNCHANGED <<ticks, late>>

NestedRun ==
    /\ ticks < MaxNestedRuns
    /\ \E s \in {DoRun(TRUE)} :
          /\ WithinEntries(s[1])
          /\ root' = s[1]
          /\ log' = s[2]
          /\ op' = s[3]
    /\ ticks' = ticks + 1
    /\ late' = late

NextNested ==
    \/ NestedEnter \/ NestedExit \/ NestedEnterPlan \/ NestedExitPlan
    \/ NestedRemove \/ NestedRun

SpecNested == InitNested /\ [][NextNested]_vars

(***************************************************************************)
(* SpecDrop: the same trees, each behaviour entered at most MaxCount times, *)
(* with the three ways a plan is destroyed: a subplan is replaced through   *)
(* insert, a subplan is removed and dropped, the whole tree is dropped (and *)
(* another one built in its place).                                         *)
(***************************************************************************)
InitDrop ==
    /\ root \in NestedTrees
    /\ log = <<>>
    /\ op = NoOp
    /\ ticks = 0
    /\ late = 0

DropEnter ==
    /\ \E s \in {DoEnter(TRUE)} :
          /\ WithinCount(s[1])
          /\ root' = s[1]
          /\ log' = s[2]
          /\ op' = s[3]
    /\ UNCHANGED <<ticks, late>>

DropEnterPlan ==
    /\ \E name \in Names : \E s \in {DoEnterPlan(TRUE, name)} :
          /\ WithinCount(s[1])
          /\ root' = s[1]
          /\ log' = s[2]
          /\ op' = s[3]
    /\ UNCHANGED <<ticks, late>>

DropExitPlan ==
    /\ \E name \in Names : \E s \in {DoExitPlan(TRUE, name)} :
          /\ root' = s[1]
          /\ log' = s[2]
          /\ op' = s[3]
    /\ UNCHANGED <<ticks, late>>

DropExit ==
    /\ \E s \in {DoExit(TRUE, FALSE)} :
          /\ root' = s[1]
          /\ log' = s[2]
          /\ op' = s[3]
    /\ UNCHANGED <<ticks, late>>

DropInsert ==
    /\ \E name \in InsertNames, autostart \in BOOLEAN :
          \E s \in {DoInsert(TRUE, new(Counting, name, 1, autostart))} :
             /\ root' = s[1]
             /\ log' = s[2]
             /\ op' = s[3]
    /\ UNCHANGED <<ticks, late>>

DropRemove ==
    /\ \E name \in Names : \E s \in {DoRemove(TRUE, name)} :
          /\ root' = s[1]
          /\ log' = s[2]
          /\ op' = s[3]
    /\ UNCHANGED <<ticks, late>>

DropTree ==
    /\ root' \in NestedTrees
    /\ log' = drop(World(root), <<"root">>).log
    /\ op' = [name |-> "drop", arg |-> <<>>, ret |-> TRUE]
    /\ UNCHANGED <<ticks, late>>

NextDrop ==
    \/ DropEnter \/ DropEnterPlan \/ DropExitPlan \/ DropExit
    \/ DropInsert \/ DropRemove \/ DropTree

SpecDrop == InitDrop /\ [][NextDrop]_vars

(***************************************************************************)
(* SpecCall: a root whose behaviour has a status, a utility and a callback  *)
(* that looks at the slot of its plan, puts another behaviour into it, or   *)
(* calls back into the plan; with the autostart subplan "B".                *)
(***************************************************************************)
CallActs == Acts \cup {"observe", "replace"}

ProbeBehaviour(hook, act) ==
    [entry_count |-> 0, exit_count |-> 0, run_count |-> 0,
     hook |-> hook, act |-> act, arg |-> IF act = "replace" THEN Counting ELSE ScriptArg,
     status |-> <<TRUE>>, utility |-> 1]

Probes == {ProbeBehaviour(h, a) : h \in Hooks, a \in CallActs}

InitCall ==
    /\ root \in {With(new(b, "root", 1, TRUE), new(Counting, "B", 1, TRUE)) : b \in Probes}
    /\ log = <<>>
    /\ op = NoOp
    /\ ticks = 0
    /\ late = 0

CallRun ==
    /\ \E s \in {DoRun(TRUE)} :
          /\ WithinCount(s[1]) /\ WithinRuns(s[1])
          /\ root' = s[1]
          /\ log' = s[2]
          /\ op' = s[3]
    /\ UNCHANGED <<ticks, late>>

CallEnter ==
    /\ \E s \in {DoEnter(TRUE)} :
          /\ WithinCount(s[1])
          /\ root' = s[1]
          /\ log' = s[2]
          /\ op' = s[3]
    /\ UNCHANGED <<ticks, late>>

CallExit ==
    /\ \E exclude_self \in BOOLEAN : \E s \in {DoExit(TRUE, exclude_self)} :
          /\ WithinCount(s[1])
          /\ root' = s[1]
          /\ log' = s[2]
          /\ op' = s[3]
    /\ UNCHANGED <<ticks, late>>

NextCall == CallRun \/ CallEnter \/ CallExit

SpecCall == InitCall /\ [][NextCall]_vars

(***************************************************************************)
(* SpecStatus: the predicates over the statuses of subplans, evaluated on   *)
(* the plans of the tests' make_plan, each of "A", "B", "C" being absent or *)
(* there with status None, Some(true) or Some(false), with every src of up  *)
(* to MaxSrc names.                                                         *)
(***************************************************************************)
SetStatusBehaviour(s) == [status |-> s]

Statuses == {<<>>, <<TRUE>>, <<FALSE>>}

\* <<>> for a subplan that is not inserted, <<s>> for one with status s.
Presence == {<<>>} \cup {<<s>> : s \in Statuses}

Grow(plan, name, presence) ==
    IF presence = <<>> THEN plan
    ELSE With(plan, new(SetStatusBehaviour(presence[1]), name, 0, FALSE))

make_plan(a, b, c) ==
    Grow(Grow(Grow(new(SetStatusBehaviour(<<>>), "root", 0, FALSE), "A", a), "B", b), "C", c)

Seqs(S, n) == UNION {[1..k -> S] : k \in 0..n}

StatusPredicates == {AllSuccess, AnySuccess, AllFailure, AnyFailure}

InitStatus ==
    /\ root \in {make_plan(a, b, c) : a \in Presence, b \in Presence, c \in Presence}
    /\ log = <<>>
    /\ op = NoOp
    /\ ticks = 0
    /\ late = 0

EvaluatePredicate ==
    /\ \E predicate \in StatusPredicates, src \in Seqs(Names, MaxSrc) :
          op' = [name |-> "evaluate", arg |-> [predicate |-> predicate, src |-> src],
                 ret |-> evaluate(predicate, root, src)]
    /\ UNCHANGED <<root, log, ticks, late>>

\* The status of a subplan is set through the public behaviour field.
SetStatus ==
    /\ \E i \in 1..Len(root.plans), s \in Statuses :
          root' = [root EXCEPT !.plans[i].behaviour = <<SetStatusBehaviour(s)>>]
    /\ op' = NoOp
    /\ UNCHANGED <<log, ticks, late>>

NextStatus == EvaluatePredicate \/ SetStatus

SpecStatus == InitStatus /\ [][NextStatus]_vars

(***************************************************************************)
(* SpecLogic: the logical predicates applied to every list of up to         *)
(* MaxOperands operands True and False, and Not to either.                  *)
(***************************************************************************)
Operands == Seqs({True, False}, MaxOperands)

LogicPredicates ==
    {[kind |-> k, args |-> args] : k \in {"And", "Or", "Xor", "Nand", "Nor", "Xnor"},
                                   args \in Operands}
    \cup {Not(True), Not(False)}

InitLogic ==
    /\ root = new(SetStatusBehaviour(<<>>), "root", 0, FALSE)
    /\ log = <<>>
    /\ op = NoOp
    /\ ticks = 0
    /\ late = 0

EvaluateLogic ==
    /\ \E predicate \in LogicPredicates :
          op' = [name |-> "evaluate", arg |-> predicate,
                 ret |-> evaluate(predicate, root, <<>>)]
    /\ UNCHANGED <<root, log, ticks, late>>

NextLogic == EvaluateLogic

SpecLogic == InitLogic /\ [][NextLogic]_vars

(***************************************************************************)
(* C1.  In every plan of the tree the subplans are strictly sorted by name, *)
(* so no two of them share a name, after any sequence of operations, the    *)
(* stubs that enter_plan and the transitions create included.               *)
(***************************************************************************)
Sorted(plans) == \A i \in 1..(Len(plans) - 1) : NameLess(plans[i].name, plans[i + 1].name)

C1_SortedUnique == \A n \in AllNodes : Sorted(n.plan.plans)

\* Three subplans, the last a stub that enter_plan created, and a stub one level down.
C1_Witness ==
    /\ Len(root.plans) = 3
    /\ root.plans[3].name = "C" /\ root.plans[3].behaviour = <<>>
    /\ \E i \in 1..2 : Len(root.plans[i].plans) > 0

(***************************************************************************)
(* C2.  For every plan with a behaviour, the number of on_entry calls the   *)
(* behaviour has received equals the number of on_exit calls plus 1 if the  *)
(* plan is active and plus 0 if it is not.                                  *)
(***************************************************************************)
Balanced(p) ==
    p.behaviour # <<>> =>
        p.behaviour[1].entry_count = p.behaviour[1].exit_count + (IF active(p) THEN 1 ELSE 0)

C2_EntryExitBalanced == \A n \in AllNodes : Balanced(n.plan)

(***************************************************************************)
(* C3.  After every operation, no plan is active while its parent is        *)
(* inactive, in the trees whose callbacks do nothing or enter or exit a     *)
(* subplan of their own plan.                                               *)
(***************************************************************************)
SubplanCallbacksOnly ==
    \A n \in AllNodes :
        n.plan.behaviour # <<>> =>
            n.plan.behaviour[1].act \in {"none", "enter_plan", "exit_plan"}

C3_ActiveOnlyUnderActive ==
    SubplanCallbacksOnly =>
        \A n \in AllNodes : (~n.is_root /\ active(n.plan)) => n.parent_active

(***************************************************************************)
(* C4.  A plan is active exactly when run_countdown < MAX; an inactive plan *)
(* has run_countdown = MAX and an active plan has run_countdown in          *)
(* 0..run_interval (run_interval is never reassigned in this model).        *)
(***************************************************************************)
C4_Countdown ==
    \A n \in AllNodes :
        /\ active(n.plan) <=> n.plan.run_countdown < MAX
        /\ ~active(n.plan) => n.plan.run_countdown = MAX
        /\ active(n.plan) => n.plan.run_countdown \in 0..n.plan.run_interval

\* After a tick: a plan with run_interval 2 waits one more tick, beside an inactive plan.
C4_Witness ==
    /\ root.run_interval = 2 /\ root.run_countdown = 1
    /\ \E i \in 1..Len(root.plans) : ~active(root.plans[i])
    /\ \E i \in 1..Len(root.plans) :
          root.plans[i].run_interval = 2 /\ root.plans[i].run_countdown = 1

(***************************************************************************)
(* Events of the last operation.                                           *)
(***************************************************************************)
EventsAt(who, ev) == {i \in 1..Len(log) : log[i].who = who /\ log[i].ev = ev}

IsPrefix(q, c) == Len(q) <= Len(c) /\ SubSeq(c, 1, Len(q)) = q

IsChildOf(c, q) == Len(c) = Len(q) + 1 /\ IsPrefix(q, c)

SeqSet(s) == {s[i] : i \in 1..Len(s)}

(***************************************************************************)
(* C5.  A behaviour gets on_prepare and on_run only between an on_entry and *)
(* the on_exit that matches it (at the call it has counted one more entry   *)
(* than exits, at on_entry as many entries as exits); within a tick         *)
(* on_prepare comes before run() is called on any subplan of the plan and   *)
(* on_run after run() of every subplan has returned.                        *)
(***************************************************************************)
C5_CallbackOrder ==
    \A i \in 1..Len(log) :
        /\ log[i].ev \in {"on_prepare", "on_run", "on_exit"} => log[i].info = 1
        /\ log[i].ev = "on_entry" => log[i].info = 0
        /\ log[i].ev \in {"on_prepare", "on_run"} => op.name = "run"
        /\ log[i].ev = "on_prepare" =>
              \A j \in 1..Len(log) :
                  (log[j].ev = "run" /\ IsChildOf(log[j].who, log[i].who)) => i < j
        /\ log[i].ev = "on_run" =>
              /\ \A j \in 1..Len(log) :
                    (log[j].ev \in {"run", "ran"} /\ IsChildOf(log[j].who, log[i].who))
                        => j < i
              /\ \A j \in 1..i :
                    (log[j].ev = "run" /\ IsChildOf(log[j].who, log[i].who)) =>
                        \E k \in (j + 1)..i : log[k].ev = "ran" /\ log[k].who = log[j].who

\* A tick in which the root is prepared, a subplan runs its behaviour, and the root
\* runs its own.
C5_Witness ==
    /\ op.name = "run"
    /\ \E i, j, k, l \in 1..Len(log) :
          /\ i < j /\ j < k /\ k < l
          /\ log[i].ev = "on_prepare" /\ log[i].who = <<"root">>
          /\ log[j].ev = "on_prepare" /\ IsChildOf(log[j].who, <<"root">>)
          /\ log[k].ev = "on_run" /\ log[k].who = log[j].who
          /\ log[l].ev = "on_run" /\ log[l].who = <<"root">>

(***************************************************************************)
(* C6.  A plan with constant run_interval N >= 1 gets on_prepare and on_run *)
(* on exactly the run() calls 1, N + 1, 2N + 1, ... counted from its entry, *)
(* and with N = 0 on none; run() is called on every active subplan in every *)
(* tick all the same, and on no inactive one.                               *)
(***************************************************************************)
Due(n, k) == n >= 1 /\ (k - 1) % n = 0

\* The run() calls on the plan at `who` since its entry, the current one included.
RunsSinceEntry(who) == IF who = <<"root", "B">> THEN late ELSE ticks

C6_Interval ==
    op.name = "run" =>
        \A n \in AllNodes :
            /\ Cardinality(EventsAt(n.who, "run")) = IF active(n.plan) THEN 1 ELSE 0
            /\ \A ev \in {"on_prepare", "on_run"} :
                  Cardinality(EventsAt(n.who, ev)) =
                      IF active(n.plan) /\ Due(n.plan.run_interval, RunsSinceEntry(n.who))
                      THEN 1 ELSE 0

\* The fifth tick of a root with run_interval 2, over "A" with run_interval 0, which
\* is run without a callback, and "B" in its third tick, which gets its on_run.
C6_Witness ==
    /\ op.name = "run" /\ ticks = 5 /\ late = 3
    /\ root.run_interval = 2
    /\ EventsAt(<<"root">>, "on_run") # {}
    /\ get(root, "A")[1].run_interval = 0
    /\ EventsAt(<<"root", "A">>, "run") # {}
    /\ EventsAt(<<"root", "A">>, "on_run") = {}
    /\ EventsAt(<<"root", "B">>, "on_run") # {}

(***************************************************************************)
(* C7.  When a transition fires, the subplans named in src and not in dst   *)
(* are exited before any subplan named in dst and not in src is entered, so *)
(* every on_exit of the fire precedes every on_entry of it, and after the   *)
(* fire the active subplans are those active before it less src \ dst plus  *)
(* dst \ src.  A subplan named in both gets no callback and keeps the       *)
(* activation it had when the fire began.                                   *)
(***************************************************************************)
\* The "fired" event that closes the fire opened at i.
FireEnd(i) ==
    CHOOSE k \in (i + 1)..Len(log) :
        /\ log[k].ev = "fired" /\ log[k].who = log[i].who
        /\ \A j \in (i + 1)..(k - 1) : ~(log[j].ev = "fired" /\ log[j].who = log[i].who)

SrcOnly(t) == SeqSet(t.src) \ SeqSet(t.dst)
DstOnly(t) == SeqSet(t.dst) \ SeqSet(t.src)
SrcAndDst(t) == SeqSet(t.src) \cap SeqSet(t.dst)

ExitsBeforeEntries(i) ==
    /\ \A a, b \in (i + 1)..(FireEnd(i) - 1) :
          (log[a].ev = "on_exit" /\ log[b].ev = "on_entry") => a < b
    /\ log[FireEnd(i)].info.active =
          (log[i].info.active \ SrcOnly(log[i].info)) \cup DstOnly(log[i].info)

NoCallback(i, name) ==
    \A j \in (i + 1)..(FireEnd(i) - 1) : ~IsPrefix(Append(log[i].who, name), log[j].who)

C7_TransitionFire ==
    \A i \in 1..Len(log) :
        log[i].ev = "transition" =>
            /\ ExitsBeforeEntries(i)
            /\ \A name \in SrcAndDst(log[i].info) :
                  /\ NoCallback(i, name)
                  /\ name \in log[FireEnd(i)].info.active <=> name \in log[i].info.active

\* C7 as the specification words it: the subplan named in both stays active.
C7_StaysActive ==
    \A i \in 1..Len(log) :
        log[i].ev = "transition" =>
            /\ ExitsBeforeEntries(i)
            /\ \A name \in SrcAndDst(log[i].info) :
                  /\ NoCallback(i, name)
                  /\ name \in log[FireEnd(i)].info.active

\* A tick with two fires: the first exits "A" and enters "B", each with its callback;
\* the second names "A" in src and in dst and enters "C".
C7_Witness ==
    \E i, a, b, j \in 1..Len(log) :
        /\ log[i].ev = "transition" /\ log[j].ev = "transition"
        /\ i < a /\ a < b /\ b < FireEnd(i) /\ FireEnd(i) < j
        /\ log[a].ev = "on_exit" /\ log[a].who = <<"root", "A">>
        /\ log[b].ev = "on_entry" /\ log[b].who = <<"root", "B">>
        /\ SrcAndDst(log[j].info) = {"A"}
        /\ "C" \in log[FireEnd(j)].info.active \ log[j].info.active

(***************************************************************************)
(* C8.  For every plan of the tree: enter on it when it is active returns   *)
(* false and changes nothing, and exit on it when it is inactive, with      *)
(* either exclude_self, returns false and changes nothing; no callback is   *)
(* called.                                                                  *)
(***************************************************************************)
C8_NothingToDo ==
    \A n \in AllNodes :
        /\ active(n.plan) => enter(World(n.plan), n.who) = World(n.plan)
        /\ ~active(n.plan) =>
              \A exclude_self \in BOOLEAN :
                  exit(World(n.plan), exclude_self, n.who) = World(n.plan)

\* An active root over an inactive autostart subplan with a behaviour: enter on the
\* root would have something to enter, and exit on the subplan is the other case.
C8_Witness ==
    /\ active(root)
    /\ \E i \in 1..Len(root.plans) :
          /\ ~active(root.plans[i])
          /\ root.plans[i].autostart
          /\ root.plans[i].behaviour # <<>>

(***************************************************************************)
(* C9.  In the tree of abc_plan, after each tick exactly one of "A", "B",   *)
(* "C" is active: "B" after the first tick, then "C", "A", "B", ... one hop *)
(* per tick; "D" is never active; and after 2 + 3 * (cycles - 1) ticks and  *)
(* then exit(false), each of "A", "B", "C" has counted exactly cycles       *)
(* on_entry and cycles on_exit.                                             *)
(***************************************************************************)
Hops == <<"B", "C", "A">>

C9_Cycle ==
    /\ ~active(get(root, "D")[1])
    /\ op.name = "run" => ActiveNames(root) = {Hops[((ticks - 1) % 3) + 1]}
    /\ (op.name = "exit" /\ ticks >= 2 /\ (ticks - 2) % 3 = 0) =>
          \A name \in {"A", "B", "C"} :
              /\ get(root, name)[1].behaviour[1].entry_count = ((ticks - 2) \div 3) + 1
              /\ get(root, name)[1].behaviour[1].exit_count = ((ticks - 2) \div 3) + 1

\* The end of the test cycle_plans: cycles = 10.
C9_Witness ==
    /\ op.name = "exit" /\ ticks = 29
    /\ get(root, "A")[1].behaviour[1].entry_count = 10
    /\ get(root, "C")[1].behaviour[1].exit_count = 10

(***************************************************************************)
(* C10.  insert(child) on the root leaves exactly one subplan of the        *)
(* child's name, at its sorted place, and the other subplans as they were.  *)
(* A subplan of that name that was there is replaced and gets on_exit iff   *)
(* it was active.  Under an active parent an inactive autostart child is    *)
(* entered with exactly one on_entry, an inactive child without autostart   *)
(* stays inactive, and an active child stays active with no on_entry; under *)
(* an inactive parent the child ends inactive, with on_exit iff it was      *)
(* active and never on_entry.                                               *)
(***************************************************************************)
\* The events for the plan at `who` before the first "drop" event, which are those
\* of the inserted child, and from it on, which are those of the replaced subplan.
FirstDrop(events, who) ==
    IF \E i \in 1..Len(events) : events[i].ev = "drop" /\ events[i].who = who
    THEN CHOOSE i \in 1..Len(events) :
            /\ events[i].ev = "drop" /\ events[i].who = who
            /\ \A j \in 1..(i - 1) : ~(events[j].ev = "drop" /\ events[j].who = who)
    ELSE Len(events) + 1

ChildEvents(events, who, ev) ==
    {i \in 1..(FirstDrop(events, who) - 1) : events[i].who = who /\ events[i].ev = ev}

ReplacedEvents(events, who, ev) ==
    {i \in (FirstDrop(events, who) + 1)..Len(events) :
        events[i].who = who /\ events[i].ev = ev}

Named(plans, name) == {i \in 1..Len(plans) : plans[i].name = name}

Others(plans, name) == {plans[i] : i \in 1..Len(plans) \ Named(plans, name)}

InsertEffect(parent, before, child, after, events) ==
    LET who == <<"root", child.name>>
        now == {after[i] : i \in Named(after, child.name)}
        was == {before[i] : i \in Named(before, child.name)}
        entries == Cardinality(ChildEvents(events, who, "on_entry"))
        exits == Cardinality(ChildEvents(events, who, "on_exit"))
    IN /\ Cardinality(Named(after, child.name)) = 1
       /\ Sorted(after)
       /\ Others(after, child.name) = Others(before, child.name)
       /\ \A old \in was :
             /\ Cardinality(ReplacedEvents(events, who, "on_exit")) =
                   IF active(old) /\ old.behaviour # <<>> THEN 1 ELSE 0
             /\ ReplacedEvents(events, who, "on_entry") = {}
       /\ was = {} => FirstDrop(events, who) = Len(events) + 1
       /\ \A it \in now :
             IF active(parent)
             THEN IF active(child) THEN it = child /\ entries = 0 /\ exits = 0
                  ELSE IF child.autostart
                       THEN /\ active(it)
                            /\ entries = 1 /\ exits = 0
                            /\ it.behaviour[1].entry_count
                                   = child.behaviour[1].entry_count + 1
                       ELSE it = child /\ entries = 0 /\ exits = 0
             ELSE /\ ~active(it)
                  /\ entries = 0
                  /\ exits = IF active(child) THEN 1 ELSE 0

C10_Insert ==
    [][op'.name = "insert" =>
          /\ active(root') <=> active(root)
          /\ InsertEffect(root, root.plans, op'.arg, root'.plans, log')]_vars

\* An insert under an active root that entered an autostart child and replaced an
\* active subplan, which got its on_exit.
C10_Witness ==
    /\ op.name = "insert" /\ active(root)
    /\ ~active(op.arg) /\ op.arg.autostart
    /\ \E i, j, k \in 1..Len(log) :
          /\ i < j /\ j < k
          /\ log[i].ev = "on_entry" /\ log[i].who = <<"root", op.arg.name>>
          /\ log[j].ev = "drop" /\ log[j].info
          /\ log[k].ev = "on_exit" /\ log[k].who = <<"root", op.arg.name>>

(***************************************************************************)
(* C11.  Under an active root the subplans inserted from new_plan are in    *)
(* the order of their names, one of each name, and every autostart one is   *)
(* active and has counted exactly one on_entry and no on_exit, a name       *)
(* inserted twice included; after exit(false) on the active root every      *)
(* autostart subplan has counted exactly one on_exit.                       *)
(***************************************************************************)
SubplanNames(p) == [i \in 1..Len(p.plans) |-> p.plans[i].name]

Counts(p) == <<p.behaviour[1].entry_count, p.behaviour[1].exit_count>>

C11_SortedInsert ==
    /\ Sorted(root.plans)
    /\ active(root) =>
          \A i \in 1..Len(root.plans) :
              root.plans[i].autostart =>
                  active(root.plans[i]) /\ Counts(root.plans[i]) = <<1, 0>>
    /\ (op.name = "exit" /\ op.ret) =>
          \A i \in 1..Len(root.plans) :
              root.plans[i].autostart =>
                  ~active(root.plans[i]) /\ Counts(root.plans[i]) = <<1, 1>>

\* "B" has just been inserted again under the active root, over the "B" that was
\* there and active: three autostart subplans "A", "B", "C".
C11_Witness ==
    /\ active(root)
    /\ op.name = "insert" /\ op.arg = new_plan("B", TRUE)
    /\ \E i \in 1..Len(log) : log[i].ev = "drop" /\ log[i].info
    /\ SubplanNames(root) = <<"A", "B", "C">>
    /\ \A i \in 1..3 : root.plans[i].autostart

(***************************************************************************)
(* C12.  new and new_stub return an inactive plan whatever the autostart    *)
(* flag; enter() of an inactive plan without an active descendant returns   *)
(* true and leaves active exactly the plan and the descendants that a chain *)
(* of autostart subplans links to it, with one on_entry for each of these   *)
(* that has a behaviour and no other callback.                              *)
(***************************************************************************)
RECURSIVE AutostartChain(_, _)
AutostartChain(p, who) ==
    {who} \cup UNION {AutostartChain(p.plans[i], Append(who, p.plans[i].name))
                         : i \in {j \in 1..Len(p.plans) : p.plans[j].autostart}}

ActivePaths(p) == {n.who : n \in {m \in Nodes(p, <<"root">>) : active(m.plan)}}

EventsIn(events, who, ev) ==
    {i \in 1..Len(events) : events[i].who = who /\ events[i].ev = ev}

NewInactive ==
    \A n \in Names, a \in BOOLEAN :
        /\ ~active(new_stub(n, a))
        /\ \A i \in 0..MaxInterval : ~active(new(Counting, n, i, a))

EnterEffect ==
    (op'.name = "enter" /\ ActivePaths(root) = {}) =>
        /\ op'.ret
        /\ ActivePaths(root') = AutostartChain(root, <<"root">>)
        /\ \A n \in Nodes(root, <<"root">>) :
              /\ Cardinality(EventsIn(log', n.who, "on_entry"))
                    = IF n.who \in AutostartChain(root, <<"root">>)
                         /\ n.plan.behaviour # <<>>
                      THEN 1 ELSE 0
              /\ EventsIn(log', n.who, "on_exit") = {}

C12_Enter == [][NewInactive /\ EnterEffect]_vars

\* The root has been entered for the second time: "A" and its subplan "A" were
\* entered with it, "B" was not.
C12_Witness ==
    /\ op.name = "enter" /\ op.ret
    /\ root.behaviour[1].entry_count = 2
    /\ ActivePaths(root) = {<<"root">>, <<"root", "A">>, <<"root", "A", "A">>}
    /\ Len(log) = 3

(***************************************************************************)
(* C13.  enter_plan(name) on an inactive plan returns None and changes      *)
(* nothing, without a callback; on an active plan it returns the subplan of *)
(* that name, active afterwards, the other subplans being as they were: a   *)
(* missing name gives an entered stub without behaviour, not autostart, at  *)
(* its place in the name order; an inactive subplan gets one on_entry; an   *)
(* active subplan gets no callback and is unchanged.                        *)
(***************************************************************************)
Callbacks(events) == {i \in 1..Len(events) : events[i].ev \in Hooks}

Sub(p, name) == get(p, name)[1]

EnterPlanEffect ==
    op'.name = "enter_plan" =>
        IF ~active(root)
        THEN ~op'.ret /\ root' = root /\ Callbacks(log') = {}
        ELSE /\ op'.ret
             /\ get(root', op'.arg) # <<>>
             /\ active(Sub(root', op'.arg))
             /\ Sorted(root'.plans)
             /\ [root' EXCEPT !.plans = <<>>] = [root EXCEPT !.plans = <<>>]
             /\ \A n \in Names \ {op'.arg} : get(root', n) = get(root, n)
             /\ IF get(root, op'.arg) = <<>>
                THEN /\ Sub(root', op'.arg)
                           = [new_stub(op'.arg, FALSE) EXCEPT !.run_countdown = 0]
                     /\ Callbacks(log') = {}
                ELSE IF active(Sub(root, op'.arg))
                THEN root' = root /\ Callbacks(log') = {}
                ELSE /\ Cardinality(EventsIn(log', <<"root", op'.arg>>, "on_entry"))
                           = IF Sub(root, op'.arg).behaviour = <<>> THEN 0 ELSE 1
                     /\ \A i \in Callbacks(log') :
                           /\ log'[i].ev = "on_entry"
                           /\ IsPrefix(<<"root", op'.arg>>, log'[i].who)

C13_EnterPlan == [][EnterPlanEffect]_vars

\* enter_plan("A") has put an entered stub in front of "B", where "A" had been
\* removed.
C13_Witness ==
    /\ op.name = "enter_plan" /\ op.arg = "A" /\ op.ret
    /\ Len(root.plans) >= 2
    /\ root.plans[1] = [new_stub("A", FALSE) EXCEPT !.run_countdown = 0]
    /\ root.plans[2].name = "B"

(***************************************************************************)
(* C14.  For a name that no subplan has, get and get_mut return None and    *)
(* priority returns Err, and remove and exit_plan return None and leave the *)
(* tree as it was, without a callback.                                      *)
(***************************************************************************)
Absent(p) == Names \ SeqSet(SubplanNames(p))

AbsentLookup ==
    \A n \in Absent(root) :
        /\ get(root, n) = <<>>
        /\ get_mut(root, n) = <<>>
        /\ ~priority(root, n).ok

AbsentEffect ==
    (op'.name \in {"remove", "exit_plan"} /\ op'.arg \in Absent(root)) =>
        ~op'.ret /\ root' = root /\ log' = <<>>

C14_Absent == [][AbsentLookup /\ AbsentEffect]_vars

\* "A" was removed before and has just been asked for again, under the active
\* root with "B" active.
C14_Witness ==
    /\ op.name \in {"remove", "exit_plan"} /\ op.arg = "A" /\ ~op.ret
    /\ active(root)
    /\ Len(root.plans) = 1 /\ root.plans[1].name = "B" /\ active(root.plans[1])

(***************************************************************************)
(* C15.  exit on an active plan returns true and leaves every descendant    *)
(* inactive; each descendant that was active gets on_exit once (when it has *)
(* a behaviour), before the on_exit of its parent, and no other descendant  *)
(* gets one.  With exclude_self = false the plan's own on_exit is the last  *)
(* callback and the plan is inactive; with exclude_self = true the plan     *)
(* gets no on_exit and keeps its run_countdown, so stays active.            *)
(***************************************************************************)
ExitsOf(events, n) == EventsIn(events, n.who, "on_exit")

ChildrenFirst(events) ==
    \A i \in 1..Len(events), j \in 1..Len(events) :
        (/\ events[i].ev = "on_exit" /\ events[j].ev = "on_exit"
         /\ IsChildOf(events[i].who, events[j].who)) => i < j

ExitEffect ==
    (op'.name = "exit" /\ active(root)) =>
        /\ op'.ret
        /\ ActivePaths(root') \subseteq {<<"root">>}
        /\ Callbacks(log') = {i \in 1..Len(log') : log'[i].ev = "on_exit"}
        /\ \A n \in Nodes(root, <<"root">>) :
              ~n.is_root =>
                  Cardinality(ExitsOf(log', n))
                      = IF active(n.plan) /\ n.plan.behaviour # <<>> THEN 1 ELSE 0
        /\ ChildrenFirst(log')
        /\ IF op'.arg
           THEN /\ EventsIn(log', <<"root">>, "on_exit") = {}
                /\ root'.run_countdown = root.run_countdown
           ELSE /\ EventsIn(log', <<"root">>, "on_exit") = {Len(log')}
                /\ ~active(root')

C15_Exit == [][ExitEffect]_vars

\* exit(true) after a run: "A" and its subplan "A" were exited, the subplan
\* first, and the root keeps the countdown the run left.
C15_Witness ==
    /\ op.name = "exit" /\ op.arg /\ op.ret
    /\ root.run_countdown = MaxInterval - 1
    /\ Len(log) >= 2
    /\ log[1] = Ev("on_exit", <<"root", "A", "A">>, 1)
    /\ log[2] = Ev("on_exit", <<"root", "A">>, 1)

(***************************************************************************)
(* C16.  When a plan is destroyed (the tree dropped, a subplan replaced     *)
(* through insert, a subplan removed and dropped), the plan and each of its *)
(* descendants get on_exit exactly once if active (and with a behaviour)    *)
(* and not at all if inactive, a plan exited before among the latter; no    *)
(* plan outside the destroyed one gets on_exit.                             *)
(***************************************************************************)
Destroyed(p, done) ==
    CASE done.name = "drop" -> Nodes(p, <<"root">>)
      [] done.name = "remove" /\ get(p, done.arg) # <<>> ->
             Nodes(Sub(p, done.arg), <<"root", done.arg>>)
      [] done.name = "insert" /\ get(p, done.arg.name) # <<>> ->
             Nodes(Sub(p, done.arg.name), <<"root", done.arg.name>>)
      [] OTHER -> {}

DropEffect ==
    op'.name \in {"drop", "remove", "insert"} =>
        /\ \A n \in Destroyed(root, op') :
              /\ Cardinality(EventsIn(log', n.who, "drop")) = 1
              /\ Cardinality(ReplacedEvents(log', n.who, "on_exit"))
                    = IF active(n.plan) /\ n.plan.behaviour # <<>> THEN 1 ELSE 0
        /\ \A i \in 1..Len(log') :
              log'[i].ev \in {"drop", "on_exit"} =>
                  /\ \E n \in Destroyed(root, op') : n.who = log'[i].who
                  /\ i >= FirstDrop(log', log'[i].who)

C16_Drop == [][DropEffect]_vars

\* "A" was removed while it and its subplan "A" were active: one on_exit each.
C16_Witness ==
    /\ op.name = "remove" /\ op.arg = "A" /\ op.ret
    /\ log = << Ev("drop", <<"root", "A">>, TRUE), Ev("on_exit", <<"root", "A">>, 1),
                Ev("drop", <<"root", "A", "A">>, TRUE),
                Ev("on_exit", <<"root", "A", "A">>, 1) >>

(***************************************************************************)
(* C17.  A callback finds the behaviour slot of its plan empty, so that     *)
(* status() of the plan is None and utility() is 0 for it; after the call   *)
(* the slot holds the behaviour that was there before, with what its own    *)
(* callbacks counted, whatever the callback did to the plan: status() and   *)
(* utility() are the behaviour's again.                                     *)
(***************************************************************************)
SlotEmpty ==
    \A i \in 1..Len(log) :
        log[i].ev = "slot" =>
            log[i].info = [behaviour |-> <<>>, status |-> <<>>, utility |-> 0]

SlotRestored ==
    /\ root.behaviour # <<>>
    /\ \E b \in Probes :
          root.behaviour[1]
              = [b EXCEPT !.entry_count = root.behaviour[1].entry_count,
                          !.exit_count = root.behaviour[1].exit_count,
                          !.run_count = root.behaviour[1].run_count]
    /\ status(root) = <<TRUE>>
    /\ utility(root) = 1

CallbacksCounted ==
    op.name # "new" =>
        \A h \in {"on_entry", "on_exit", "on_run"} :
            Cardinality(EventsAt(<<"root">>, h)) <= 1

C17_Slot == SlotEmpty /\ SlotRestored /\ CallbacksCounted

\* on_run has looked at the slot during a run, and the behaviour is back with
\* the run counted.
C17_Witness ==
    /\ op.name = "run"
    /\ \E i \in 1..Len(log) : log[i].ev = "slot" /\ log[i].who = <<"root">>
    /\ root.behaviour[1].hook = "on_run"
    /\ root.behaviour[1].run_count = 1

(***************************************************************************)
(* C18.  AllSuccess is true exactly when every plan of the effective set    *)
(* has status Some(true), AnySuccess exactly when one of them has; None is  *)
(* not a success.  The effective set is all subplans for an empty src, and  *)
(* otherwise the subplans whose names src lists (names without a subplan    *)
(* are skipped); on an empty effective set AllSuccess is true and           *)
(* AnySuccess false.                                                        *)
(***************************************************************************)
Effective(plan, src) ==
    IF src = <<>> THEN SeqSet(plan.plans)
    ELSE {p \in SeqSet(plan.plans) : p.name \in SeqSet(src)}

Evaluated(kind) == op.name = "evaluate" /\ op.arg.predicate.kind = kind

C18_Success ==
    /\ Evaluated("AllSuccess") =>
          (op.ret <=> \A p \in Effective(root, op.arg.src) : status(p) = <<TRUE>>)
    /\ Evaluated("AnySuccess") =>
          (op.ret <=> \E p \in Effective(root, op.arg.src) : status(p) = <<TRUE>>)
    /\ (Evaluated("AllSuccess") /\ Effective(root, op.arg.src) = {}) => op.ret
    /\ (Evaluated("AnySuccess") /\ Effective(root, op.arg.src) = {}) => ~op.ret

\* AllSuccess over a src that names "A" and the absent "B": true, "A" having
\* succeeded, although "C" has no status.
C18_Witness ==
    /\ Evaluated("AllSuccess") /\ op.ret
    /\ op.arg.src = <<"B", "A">>
    /\ SubplanNames(root) = <<"A", "C">>
    /\ status(root.plans[2]) = <<>>

(***************************************************************************)
(* C19.  AllFailure is true exactly when every plan of the effective set    *)
(* has status Some(false), AnyFailure exactly when one of them has: they    *)
(* are the negations of AnySuccess and AllSuccess computed with None as a   *)
(* success, so a plan with status None does not make AnyFailure true and    *)
(* makes AllFailure false.                                                  *)
(***************************************************************************)
C19_Failure ==
    /\ Evaluated("AllFailure") =>
          /\ op.ret <=> \A p \in Effective(root, op.arg.src) : status(p) = <<FALSE>>
          /\ op.ret <=> ~any_success(root, op.arg.src, TRUE)
          /\ (\E p \in Effective(root, op.arg.src) : status(p) = <<>>) => ~op.ret
    /\ Evaluated("AnyFailure") =>
          /\ op.ret <=> \E p \in Effective(root, op.arg.src) : status(p) = <<FALSE>>
          /\ op.ret <=> ~all_success(root, op.arg.src, TRUE)
          /\ (\A p \in Effective(root, op.arg.src) : status(p) = <<>>) => ~op.ret

\* AnyFailure over all subplans is false with one success and one plan without
\* status.
C19_Witness ==
    /\ Evaluated("AnyFailure") /\ ~op.ret
    /\ op.arg.src = <<>>
    /\ \E i \in 1..Len(root.plans) : status(root.plans[i]) = <<>>
    /\ \E i \in 1..Len(root.plans) : status(root.plans[i]) = <<TRUE>>

(***************************************************************************)
(* C20.  On every list of operands: And is true iff all operands are true,  *)
(* Or iff one is, Xor iff an odd number are; Not negates its operand; Nand, *)
(* Nor and Xnor are the negations of And, Or and Xor on the same operands.  *)
(***************************************************************************)
Trues(args) == {i \in 1..Len(args) : args[i] = True}

Odd(n) == \E k \in 0..n : n = 2 * k + 1

Applied(kind) == op.name = "evaluate" /\ op.arg.kind = kind

C20_Logic ==
    /\ Applied("And") => (op.ret <=> Trues(op.arg.args) = 1..Len(op.arg.args))
    /\ Applied("Or") => (op.ret <=> Trues(op.arg.args) # {})
    /\ Applied("Xor") => (op.ret <=> Odd(Cardinality(Trues(op.arg.args))))
    /\ Applied("Not") => (op.ret <=> op.arg.args[1] = False)
    /\ Applied("Nand") => (op.ret <=> ~evaluate(And(op.arg.args), root, <<>>))
    /\ Applied("Nor") => (op.ret <=> ~evaluate(Or(op.arg.args), root, <<>>))
    /\ Applied("Xnor") => (op.ret <=> ~evaluate(Xor(op.arg.args), root, <<>>))

\* Xor of three true operands and a false one is true.
C20_Witness ==
    /\ Applied("Xor") /\ op.ret
    /\ op.arg.args = <<True, True, False, True>>


(***************************************************************************)
(* The status behaviours on the plans of make_plan: the root carries one   *)
(* of the status behaviours, its subplans A, B and C report fixed           *)
(* statuses, and the status of the root is read while subplans are entered *)
(* and exited.                                                              *)
(***************************************************************************)
StatusOperands == {True, False, AllSuccess, AnyFailure}

StatusBehaviours ==
    {EvaluateStatus(t, f) : t \in StatusOperands, f \in StatusOperands}
        \cup {AllSuccessStatus, AnySuccessStatus, SequenceBehaviour, FallbackBehaviour}

InitBehaviour ==
    /\ root \in {[make_plan(a, b, c) EXCEPT !.behaviour = <<s>>] :
                    a \in Presence, b \in Presence, c \in Presence,
                    s \in StatusBehaviours}
    /\ log = <<>>
    /\ op = NoOp
    /\ ticks = 0
    /\ late = 0

BehaviourStatusOf ==
    /\ op' = [name |-> "status", arg |-> <<>>, ret |-> status(root)]
    /\ UNCHANGED <<root, log, ticks, late>>

BehaviourEnter ==
    /\ ~active(root)
    /\ root' = enter(World(root), <<"root">>).p
    /\ op' = NoOp
    /\ UNCHANGED <<log, ticks, late>>

BehaviourEnterPlan ==
    /\ active(root)
    /\ \E name \in Names :
          /\ get(root, name) # <<>>
          /\ ~active(get(root, name)[1])
          /\ root' = enter_plan(World(root), name, <<"root">>).p
    /\ op' = NoOp
    /\ UNCHANGED <<log, ticks, late>>

NextBehaviour == BehaviourStatusOf \/ BehaviourEnter \/ BehaviourEnterPlan

SpecBehaviour == InitBehaviour /\ [][NextBehaviour]_vars

StatusRead(kind) ==
    /\ op.name = "status"
    /\ root.behaviour # <<>>
    /\ root.behaviour[1].kind = kind

\* C21: the status of EvaluateStatus(T, F) is Some(false) whenever F holds
\* on the plan with an empty source list, also when T holds too; Some(true)
\* when T holds and F does not; None when neither holds.
C21_EvaluateStatus ==
    StatusRead("EvaluateStatus") =>
        /\ evaluate(root.behaviour[1].f, root, <<>>) => op.ret = <<FALSE>>
        /\ evaluate(root.behaviour[1].t, root, <<>>)
               /\ ~evaluate(root.behaviour[1].f, root, <<>>) => op.ret = <<TRUE>>
        /\ ~evaluate(root.behaviour[1].t, root, <<>>)
               /\ ~evaluate(root.behaviour[1].f, root, <<>>) => op.ret = <<>>

\* Both predicates hold on a plan with subplans, and the status is Some(false).
C21_Witness ==
    /\ StatusRead("EvaluateStatus")
    /\ root.behaviour[1].t = True
    /\ root.behaviour[1].f = AnyFailure
    /\ Len(root.plans) = 3
    /\ evaluate(True, root, <<>>)
    /\ evaluate(AnyFailure, root, <<>>)
    /\ op.ret = <<FALSE>>

Failed(p) == status(p) = <<FALSE>>
Succeeded(p) == status(p) = <<TRUE>>

\* C22: the status of a Sequence plan is Some(false) if any subplan has
\* status Some(false), else Some(true) if every subplan has Some(true) (also
\* with no subplans), else None; the status of a Fallback plan is Some(false)
\* if every subplan has Some(false) (also with no subplans), else Some(true)
\* if any subplan has Some(true), else None.  Both range over all subplans,
\* active or not.
C22_SequenceFallback ==
    /\ StatusRead("SequenceBehaviour") =>
          op.ret = IF \E i \in 1..Len(root.plans) : Failed(root.plans[i]) THEN <<FALSE>>
                   ELSE IF \A i \in 1..Len(root.plans) : Succeeded(root.plans[i])
                   THEN <<TRUE>> ELSE <<>>
    /\ StatusRead("FallbackBehaviour") =>
          op.ret = IF \A i \in 1..Len(root.plans) : Failed(root.plans[i]) THEN <<FALSE>>
                   ELSE IF \E i \in 1..Len(root.plans) : Succeeded(root.plans[i])
                   THEN <<TRUE>> ELSE <<>>

\* A Sequence plan whose only failed subplan is inactive while another
\* subplan is active: the status is Some(false).
C22_Witness ==
    /\ StatusRead("SequenceBehaviour")
    /\ Len(root.plans) = 3
    /\ active(root.plans[1]) /\ Succeeded(root.plans[1])
    /\ ~active(root.plans[2]) /\ Failed(root.plans[2])
    /\ Succeeded(root.plans[3])
    /\ op.ret = <<FALSE>>

(***************************************************************************)
(* The wrapping behaviours ModifyStatus and MultiBehaviour around counting *)
(* behaviours that report a status and a utility and call a method of the  *)
(* plan from one of their callbacks.  The root has the inactive subplans A *)
(* and B for the wrapped behaviours to enter and exit.                      *)
(***************************************************************************)
MaxList == 2
MaxWrapOps == 3

Element(hook, act, arg, s, u) ==
    [entry_count |-> 0, exit_count |-> 0, run_count |-> 0,
     hook |-> hook, act |-> act, arg |-> arg, status |-> s, utility |-> u]

Reports == {<<<<>>, 0>>, <<<<TRUE>>, 1>>, <<<<FALSE>>, 2>>}

Calls == {<<"enter_plan", "A">>, <<"enter_plan", "B">>, <<"exit_plan", "B">>,
          <<"exit_children", "none">>}

ModifyElements ==
    {Element(h, c[1], c[2], r[1], r[2]) : h \in Hooks, c \in Calls, r \in Reports}

MultiElements ==
    {Element(h, c[1], c[2], r[1], r[2]) :
        h \in Hooks \ {"on_exit"}, c \in Calls \ {<<"exit_children", "none">>},
        r \in Reports}

Wrappers ==
    {ModifyStatus(e, o) : e \in ModifyElements, o \in Statuses}
        \cup {MultiBehaviour(l) : l \in Seqs(MultiElements, MaxList)}

InitWrap ==
    /\ root \in {With(With(new(b, "root", 1, TRUE), new(Counting, "A", 1, FALSE)),
                      new(Counting, "B", 1, FALSE)) : b \in Wrappers}
    /\ log = <<>>
    /\ op = NoOp
    /\ ticks = 0
    /\ late = 0

WrapEnter ==
    /\ ticks < MaxWrapOps
    /\ \E s \in {DoEnter(TRUE)} :
          /\ root' = s[1]
          /\ log' = s[2]
          /\ op' = s[3]
    /\ ticks' = ticks + 1
    /\ UNCHANGED late

WrapExit ==
    /\ ticks < MaxWrapOps
    /\ \E exclude_self \in BOOLEAN : \E s \in {DoExit(TRUE, exclude_self)} :
          /\ root' = s[1]
          /\ log' = s[2]
          /\ op' = s[3]
    /\ ticks' = ticks + 1
    /\ UNCHANGED late

WrapRun ==
    /\ ticks < MaxWrapOps
    /\ \E s \in {DoRun(TRUE)} :
          /\ root' = s[1]
          /\ log' = s[2]
          /\ op' = s[3]
    /\ ticks' = ticks + 1
    /\ UNCHANGED late

WrapStatus ==
    /\ op' = [name |-> "status", arg |-> <<>>,
              ret |-> [status |-> status(root), utility |-> utility(root)]]
    /\ log' = <<>>
    /\ UNCHANGED <<root, ticks, late>>

NextWrap == WrapEnter \/ WrapExit \/ WrapRun \/ WrapStatus

SpecWrap == InitWrap /\ [][NextWrap]_vars

\* The operation recorded in o applied to the plan p.
Replay(p, o) ==
    CASE o.name = "enter" -> enter(World(p), <<"root">>)
      [] o.name = "exit" -> exit(World(p), o.arg, <<"root">>)
      [] o.name = "run" -> run(World(p), <<"root">>)

Wraps(p, kind) == p.behaviour # <<>> /\ p.behaviour[1].kind = kind

\* The plan with the inner behaviour of its ModifyStatus in its place.
Unwrapped(p) == [p EXCEPT !.behaviour = <<p.behaviour[1].inner>>]

\* The events without the counters seen by the plan's own callbacks.
Steps(events) ==
    [i \in 1..Len(events) |-> [ev |-> events[i].ev, who |-> events[i].who]]

ModifyForwards ==
    Wraps(root, "ModifyStatus") /\ op'.name \in {"enter", "exit", "run"} =>
        /\ Wraps(root', "ModifyStatus")
        /\ root'.behaviour[1].override = root.behaviour[1].override
        /\ Unwrapped(root') = Replay(Unwrapped(root), op').p
        /\ Steps(log') = Steps(Replay(Unwrapped(root), op').log)

ModifyReports ==
    Wraps(root, "ModifyStatus") /\ op.name = "status" =>
        /\ op.ret.utility = root.behaviour[1].inner.utility
        /\ op.ret.status =
              IF root.behaviour[1].inner.status = <<>> THEN <<>>
              ELSE IF root.behaviour[1].override # <<>> THEN root.behaviour[1].override
              ELSE <<~root.behaviour[1].inner.status[1]>>

\* C23: every operation on a plan with ModifyStatus(inner, override) changes
\* the plan and inner as it does on the same plan with inner as its
\* behaviour (on_entry, on_exit, on_prepare and on_run reach inner
\* unchanged); the utility is inner's; the status is None when inner's is
\* None, Some(override value) when inner's is Some(x) and an override is set,
\* and Some(not x) when inner's is Some(x) and no override is set.
C23_ModifyStatus == []ModifyReports /\ [][ModifyForwards]_vars

\* inner has counted an entry, a run and an exit, it has entered B from its
\* on_run, and the status read is the negation of inner's Some(false).
C23_Witness ==
    /\ Wraps(root, "ModifyStatus")
    /\ op.name = "status"
    /\ root.behaviour[1].override = <<>>
    /\ root.behaviour[1].inner.status = <<FALSE>>
    /\ op.ret.status = <<TRUE>>
    /\ op.ret.utility = 2
    /\ root.behaviour[1].inner.entry_count = 1
    /\ root.behaviour[1].inner.run_count = 1
    /\ root.behaviour[1].inner.exit_count = 1
    /\ root.behaviour[1].inner.hook = "on_run"
    /\ get(root, "B") # <<>>
    /\ get(root, "B")[1].behaviour[1].entry_count = 1

RECURSIVE Sum(_)
Sum(numbers) == IF numbers = <<>> THEN 0 ELSE Head(numbers) + Sum(Tail(numbers))

\* The position of the first event ev of the plan who in events (0: none).
RECURSIVE Pos(_, _, _, _)
Pos(events, ev, who, i) ==
    IF i > Len(events) THEN 0
    ELSE IF events[i].ev = ev /\ events[i].who = who THEN i
    ELSE Pos(events, ev, who, i + 1)

MultiReports ==
    Wraps(root, "MultiBehaviour") /\ op.name = "status" =>
        LET list == root.behaviour[1].list IN
        /\ op.ret.utility = Sum([i \in 1..Len(list) |-> list[i].utility])
        /\ op.ret.status =
              IF \E i \in 1..Len(list) : list[i].status = <<FALSE>> THEN <<FALSE>>
              ELSE IF \E i \in 1..Len(list) : list[i].status = <<>> THEN <<>>
              ELSE <<TRUE>>

\* Every behaviour of the list has counted the callbacks the plan received.
MultiDelivers ==
    Wraps(root, "MultiBehaviour") /\ op'.name \in {"enter", "exit", "run"} =>
        /\ Wraps(root', "MultiBehaviour")
        /\ Len(root'.behaviour[1].list) = Len(root.behaviour[1].list)
        /\ \A i \in 1..Len(root.behaviour[1].list) :
              LET was == root.behaviour[1].list[i]
                  is == root'.behaviour[1].list[i] IN
              /\ is.entry_count - was.entry_count = Cardinality(EventsIn(log', <<"root">>, "on_entry"))
              /\ is.exit_count - was.exit_count = Cardinality(EventsIn(log', <<"root">>, "on_exit"))
              /\ is.run_count - was.run_count = Cardinality(EventsIn(log', <<"root">>, "on_run"))

\* Two behaviours that act in the same callback act in the order of the list:
\* the subplan entered by the first is entered before the one entered by the
\* second, and a subplan entered by the first is then exited by the second.
MultiInOrder ==
    /\ Wraps(root, "MultiBehaviour")
    /\ Len(root.behaviour[1].list) = 2
    /\ root.behaviour[1].list[1].hook = root.behaviour[1].list[2].hook
    /\ op'.name \in {"enter", "run"}
    /\ Pos(log', root.behaviour[1].list[1].hook, <<"root">>, 1) > 0
    /\ root.behaviour[1].list[1].act = "enter_plan"
    /\ ~active(get(root, "A")[1]) /\ ~active(get(root, "B")[1])
    => LET first == root.behaviour[1].list[1]
           second == root.behaviour[1].list[2] IN
       /\ Pos(log', "on_entry", <<"root", first.arg>>, 1) > 0
       /\ second.act = "enter_plan" /\ second.arg # first.arg =>
              Pos(log', "on_entry", <<"root", second.arg>>, 1)
                  > Pos(log', "on_entry", <<"root", first.arg>>, 1)
       /\ second.act = "exit_plan" /\ second.arg = first.arg =>
              Pos(log', "on_exit", <<"root", second.arg>>, 1)
                  > Pos(log', "on_entry", <<"root", first.arg>>, 1)

\* C24: the status of Multi(list) is Some(false) if an element's status is
\* Some(false), otherwise None if an element's status is None, otherwise
\* Some(true) (also for the empty list); its utility is the sum of the
\* elements' utilities; every on_entry, on_exit and on_run of the plan is
\* counted by every element, and elements acting in the same callback act in
\* list order.
C24_Multi == []MultiReports /\ [][MultiDelivers /\ MultiInOrder]_vars

\* Multi of a behaviour that enters B on_run and one that exits B on_run,
\* after a run: B was entered and exited again, both elements have counted
\* the run, and the status read is None next to a utility of 1.
C24_Witness ==
    /\ Wraps(root, "MultiBehaviour")
    /\ op.name = "status"
    /\ Len(root.behaviour[1].list) = 2
    /\ root.behaviour[1].list[1].hook = "on_run"
    /\ root.behaviour[1].list[1].act = "enter_plan"
    /\ root.behaviour[1].list[1].arg = "B"
    /\ root.behaviour[1].list[2].hook = "on_run"
    /\ root.behaviour[1].list[2].act = "exit_plan"
    /\ root.behaviour[1].list[1].run_count = 1
    /\ root.behaviour[1].list[2].run_count = 1
    /\ get(root, "B")[1].behaviour[1].entry_count = 1
    /\ get(root, "B")[1].behaviour[1].exit_count = 1
    /\ ~active(get(root, "B")[1])
    /\ root.behaviour[1].list[1].status = <<TRUE>>
    /\ root.behaviour[1].list[2].status = <<>>
    /\ op.ret.status = <<>>
    /\ op.ret.utility = 1

(***************************************************************************)
(* RepeatBehaviour on a plan with run_interval 1.  The inner behaviour is  *)
(* a MultiBehaviour of three counting behaviours: the first exits the      *)
(* subplan B in on_exit, the second enters B in on_entry, and the third    *)
(* records each on_prepare and reports the status of the whole.  The       *)
(* condition, when present, is AnySuccess, which follows the status of the *)
(* subplan A.  late counts the ticks of the current activation, and is -1  *)
(* once the inner status or the status of A was changed during it; the     *)
(* arg of an operation is the status of the plan before it.                *)
(***************************************************************************)
MaxIterations == 2
MaxRepeatOps == 5

Worker(s) ==
    MultiBehaviour(<<Element("on_exit", "exit_plan", "B", <<TRUE>>, 0),
                     Element("on_entry", "enter_plan", "B", <<TRUE>>, 0),
                     Element("on_prepare", "observe", "none", s, 0)>>)

Repeats ==
    {RepeatBehaviour(Worker(s), condition, iterations, retry) :
        s \in Statuses, condition \in {<<>>, <<AnySuccess>>},
        iterations \in 0..MaxIterations, retry \in BOOLEAN}

InitRepeat ==
    /\ root \in {With(With(new(b, "root", 1, TRUE),
                           new(SetStatusBehaviour(<<a>>), "A", 0, FALSE)),
                      new(Counting, "B", 1, FALSE)) : b \in Repeats, a \in BOOLEAN}
    /\ log = <<>>
    /\ op = NoOp
    /\ ticks = 0
    /\ late = 0

RepeatRun ==
    /\ ticks < MaxRepeatOps
    /\ \E s \in {DoRun(TRUE)} :
          /\ root' = s[1]
          /\ log' = s[2]
          /\ op' = [s[3] EXCEPT !.arg = status(root)]
    /\ ticks' = ticks + 1
    /\ late' = IF ~active(root) THEN 1 ELSE IF late = -1 THEN -1 ELSE late + 1

RepeatEnter ==
    /\ ticks < MaxRepeatOps
    /\ ~active(root)
    /\ \E s \in {DoEnter(TRUE)} :
          /\ root' = s[1]
          /\ log' = s[2]
          /\ op' = [s[3] EXCEPT !.arg = status(root)]
    /\ ticks' = ticks + 1
    /\ late' = 0

RepeatExit ==
    /\ ticks < MaxRepeatOps
    /\ active(root)
    /\ \E s \in {DoExit(TRUE, FALSE)} :
          /\ root' = s[1]
          /\ log' = s[2]
          /\ op' = [s[3] EXCEPT !.arg = status(root)]
    /\ ticks' = ticks + 1
    /\ late' = 0

\* plan.cast_mut::<RepeatBehaviour>().unwrap().behaviour = ...
RepeatSetInner ==
    /\ \E s \in Statuses :
          /\ root.behaviour[1].behaviour.list[3].status # s
          /\ root' = [root EXCEPT !.behaviour[1].behaviour.list[3].status = s]
    /\ log' = <<>>
    /\ op' = [name |-> "set_inner", arg |-> <<>>, ret |-> FALSE]
    /\ late' = IF active(root) THEN -1 ELSE late
    /\ UNCHANGED ticks

RepeatSetStatus ==
    /\ \E i \in 1..Len(root.plans) :
          /\ root.plans[i].name = "A"
          /\ root' = [root EXCEPT !.plans[i].behaviour =
                          <<SetStatusBehaviour(<<~root.plans[i].behaviour[1].status[1]>>)>>]
    /\ log' = <<>>
    /\ op' = [name |-> "set_status", arg |-> <<>>, ret |-> FALSE]
    /\ late' = IF active(root) THEN -1 ELSE late
    /\ UNCHANGED ticks

NextRepeat == RepeatRun \/ RepeatEnter \/ RepeatExit \/ RepeatSetInner \/ RepeatSetStatus

SpecRepeat == InitRepeat /\ [][NextRepeat]_vars

Wrapper(p) == p.behaviour[1]
Reporter(p) == p.behaviour[1].behaviour.list[3]
Cycled(p) == p.behaviour[1].behaviour.list[2]

\* The wrapper status and countdown at the on_prepare of a run of p: those of
\* p if it is active, those set by on_entry if the run enters p first.
StatusAtPrepare(p) == IF active(p) THEN Wrapper(p).status ELSE <<>>
CountAtPrepare(p) == IF active(p) THEN Wrapper(p).count_down ELSE Wrapper(p).iterations

Prepared(events) == Cardinality(EventsIn(events, <<"root">>, "slot"))

InnerIdle ==
    /\ Prepared(log') = 0
    /\ Wrapper(root').behaviour.list[1].run_count = Wrapper(root).behaviour.list[1].run_count

RepeatStops ==
    /\ op'.name = "run"
    /\ StatusAtPrepare(root) = <<>>
    /\ CountAtPrepare(root) = 0 \/ ~Holds(Wrapper(root).condition, root)
    => /\ Wrapper(root').status = <<~Wrapper(root).retry>>
       /\ InnerIdle

\* The ticks of an undisturbed activation whose inner behaviour reports a
\* status different from retry.
Countable ==
    /\ active(root)
    /\ late >= 1
    /\ Reporter(root).status = <<~Wrapper(root).retry>>

CountedOut ==
    /\ late <= Wrapper(root).iterations => Wrapper(root).status = <<>>
    /\ late = Wrapper(root).iterations + 1 =>
           Wrapper(root).status = <<~Wrapper(root).retry>>

RepeatCounts == Countable /\ Holds(Wrapper(root).condition, root) => CountedOut

\* C25: when the wrapper status is None at on_prepare and no iterations
\* remain or the condition is present and false, the status becomes
\* Some(!retry) and inner receives neither on_prepare nor on_run in that
\* tick.  With an inner status different from retry after every on_run, and
\* a condition that is absent or holds, the wrapper status is None after
\* each of the first `iterations` ticks of an activation and Some(!retry)
\* after the next one.
C25_RepeatStops == []RepeatCounts /\ [][RepeatStops]_vars

\* C25 as stated, for any condition: the status is None after each of the
\* first `iterations` ticks and Some(!retry) after the next.
C25_AsStated == Countable => CountedOut

\* Two iterations were counted and the third tick stopped the wrapper
\* without running inner again.
C25_Witness ==
    /\ op.name = "run"
    /\ late = 3
    /\ Wrapper(root).iterations = 2
    /\ Wrapper(root).condition # <<>>
    /\ Holds(Wrapper(root).condition, root)
    /\ ~Wrapper(root).retry
    /\ Reporter(root).status = <<TRUE>>
    /\ Wrapper(root).status = <<TRUE>>
    /\ Wrapper(root).count_down = 0
    /\ Wrapper(root).behaviour.list[1].run_count = 2

EntersFirst(p) == IF active(p) THEN 0 ELSE 1

RepeatRuns ==
    /\ op'.name = "run"
    /\ StatusAtPrepare(root) = <<>>
    /\ CountAtPrepare(root) > 0
    /\ Holds(Wrapper(root).condition, root)
    => /\ Prepared(log') = 1
       /\ Wrapper(root').behaviour.list[1].run_count
              = Wrapper(root).behaviour.list[1].run_count + 1
       /\ Reporter(root).status = <<Wrapper(root).retry>> =>
              /\ Wrapper(root').status = <<Wrapper(root).retry>>
              /\ Wrapper(root').count_down = CountAtPrepare(root)
              /\ Cycled(root').exit_count = Cycled(root).exit_count
              /\ Cycled(root').entry_count = Cycled(root).entry_count + EntersFirst(root)
       /\ Reporter(root).status = <<~Wrapper(root).retry>> =>
              /\ Wrapper(root').status = <<>>
              /\ Wrapper(root').count_down = CountAtPrepare(root) - 1
              /\ Cycled(root').exit_count = Cycled(root).exit_count + 1
              /\ Cycled(root').entry_count = Cycled(root).entry_count + EntersFirst(root) + 1
              /\ Pos(log', "on_exit", <<"root", "B">>, 1) > 0
              /\ active(get(root', "B")[1])
       /\ Reporter(root).status = <<>> =>
              /\ Wrapper(root').status = <<>>
              /\ Wrapper(root').count_down = CountAtPrepare(root)
              /\ Cycled(root').exit_count = Cycled(root).exit_count
              /\ Cycled(root').entry_count = Cycled(root).entry_count + EntersFirst(root)

RepeatStays ==
    /\ Wrapper(root).status # <<>>
    /\ active(root) \/ op'.name \notin {"run", "enter"}
    => /\ Wrapper(root').status = Wrapper(root).status
       /\ InnerIdle

\* C26: in on_run with wrapper status None, after on_run of inner: an inner
\* status equal to retry sets the wrapper status to Some(retry); one
\* different from retry consumes an iteration, cycles inner with on_exit
\* then on_entry and leaves the wrapper status None; an inner status of None
\* changes nothing.  A wrapper status of Some(_) does not change, and inner
\* receives no on_prepare or on_run, until the next on_entry.
C26_RepeatRuns == [][RepeatRuns /\ RepeatStays]_vars

\* One iteration was consumed, then inner reported retry and the wrapper
\* stopped with Some(retry), and a further tick left it there.
C26_Witness ==
    /\ op.name = "run"
    /\ op.arg = <<TRUE>>
    /\ active(root)
    /\ Wrapper(root).retry
    /\ Wrapper(root).iterations = 2
    /\ Wrapper(root).count_down = 1
    /\ Wrapper(root).status = <<TRUE>>
    /\ Reporter(root).status = <<TRUE>>
    /\ Cycled(root).entry_count = 2
    /\ Cycled(root).exit_count = 1

EnterResets ==
    ~active(root) /\ op'.name = "enter" =>
        /\ Wrapper(root').status = <<>>
        /\ Wrapper(root').count_down = Wrapper(root).iterations

\* The wrapper as constructed: no status, no countdown.
Fresh(p) == [p EXCEPT !.behaviour[1].status = <<>>, !.behaviour[1].count_down = 0]

RunsAfresh ==
    ~active(root) /\ op'.name = "run" =>
        /\ Wrapper(root').status = Wrapper(run(World(Fresh(root)), <<"root">>).p).status
        /\ Wrapper(root').count_down
               = Wrapper(run(World(Fresh(root)), <<"root">>).p).count_down

\* The ticks of an undisturbed activation follow the countdown from
\* `iterations`, whatever the wrapper held when it was entered.
RepeatRestarts ==
    Countable /\ Holds(Wrapper(root).condition, root) /\ Wrapper(root).status = <<>> =>
        Wrapper(root).count_down = Wrapper(root).iterations - late

\* C27: on_entry sets the wrapper status to None and the countdown to
\* `iterations`; a plan that is exited and entered again, by enter or by run,
\* goes through the statuses of a first activation with the full iteration
\* budget, whatever status it had reached before.
C27_RepeatRestarts == []RepeatRestarts /\ [][EnterResets /\ RunsAfresh]_vars

\* The plan had stopped with Some(true), was exited, and the run that entered
\* it again left the status None with one of its two iterations consumed.
C27_Witness ==
    /\ op.name = "run"
    /\ op.arg = <<TRUE>>
    /\ late = 1
    /\ Wrapper(root).iterations = 2
    /\ Wrapper(root).status = <<>>
    /\ Wrapper(root).count_down = 1

(***************************************************************************)
(* SequenceBehaviour on the plan of the sequence_behaviour test: the root  *)
(* (run_interval 1) has the children A, B, ... chained by transitions      *)
(* guarded by True, the first one started with the root.  The children     *)
(* report success, the last one may be a stub.  A child is replaced        *)
(* through insert by an inactive plan without autostart that is a stub     *)
(* (status None), a failing plan or a succeeding plan.  late records the   *)
(* children that have been active since the root was entered and the       *)
(* number of replacements.                                                  *)
(***************************************************************************)
MaxChain == 4
MaxSequenceTicks == 6
MaxInserts == 2

Chain == <<"A", "B", "C", "D">>

RECURSIVE Chained(_, _, _)
Chained(plan, n, i) ==
    IF i > n THEN plan
    ELSE Chained(
             [With(plan, new(AllSuccessStatus, Chain[i], 0, i = 1)) EXCEPT
                 !.transitions = IF i < n
                                 THEN Append(@, Transition(<<Chain[i]>>, <<Chain[i + 1]>>, True))
                                 ELSE @],
             n, i + 1)

SequenceTree(n, stub_last) ==
    IF stub_last
    THEN With(Chained(new(SequenceBehaviour, "root", 1, TRUE), n, 1), new_stub(Chain[n], FALSE))
    ELSE Chained(new(SequenceBehaviour, "root", 1, TRUE), n, 1)

Replacements ==
    {new_stub(name, FALSE) : name \in {Chain[i] : i \in 1..MaxChain}}
        \cup {new(b, name, 0, FALSE) :
                 name \in {Chain[i] : i \in 1..MaxChain},
                 b \in {AllSuccessStatus, AnySuccessStatus}}

InitSequence ==
    /\ root \in {SequenceTree(n, stub_last) : n \in 2..MaxChain, stub_last \in BOOLEAN}
    /\ log = <<>>
    /\ op = NoOp
    /\ ticks = 0
    /\ late = [active |-> {}, inserts |-> 0]

\* The subplans that were active at some point of the events of one run.
Activated(events) ==
    UNION {events[i].info : i \in {j \in 1..Len(events) :
                                      events[j].ev = "run" /\ events[j].who = <<"root">>}}

SequenceRun ==
    /\ ticks < MaxSequenceTicks
    /\ \E s \in {DoRun(TRUE)} :
          /\ root' = s[1]
          /\ log' = s[2]
          /\ op' = s[3]
          /\ late' = [late EXCEPT !.active = @ \cup Activated(s[2]) \cup ActiveNames(s[1])]
    /\ ticks' = ticks + 1

SequenceInsert ==
    /\ late.inserts < MaxInserts
    /\ \E plan \in Replacements :
          /\ get(root, plan.name) # <<>>
          /\ \E s \in {Done(TRUE, "insert", plan, insert(World(root), plan, <<"root">>))} :
                /\ root' = s[1]
                /\ log' = s[2]
                /\ op' = s[3]
    /\ late' = [late EXCEPT !.inserts = @ + 1]
    /\ UNCHANGED ticks

NextSequence == SequenceRun \/ SequenceInsert

SpecSequence == InitSequence /\ [][NextSequence]_vars

Min(a, b) == IF a < b THEN a ELSE b

\* Without replacements the active child advances by one per tick and stays
\* at the last child of the chain.
SequenceAdvances ==
    late.inserts = 0 /\ op.name = "run" =>
        ActiveNames(root) = {Chain[Min(ticks + 1, Len(root.plans))]}

\* The children other than name are as constructed: they succeed, except for
\* a stub at the end of the chain.
OthersSucceed(p, name) ==
    \A i \in 1..Len(p.plans) :
        p.plans[i].name # name =>
            \/ status(p.plans[i]) = <<TRUE>>
            \/ i = Len(p.plans) /\ p.plans[i].behaviour = <<>>

\* The last operation replaced a child by an inactive one that does not
\* succeed, and the next is a tick.
ReplacedThenRun ==
    /\ op.name = "insert"
    /\ op'.name = "run"
    /\ status(op.arg) # <<TRUE>>
    /\ ~active(get(root, op.arg.name)[1])
    /\ OthersSucceed(root, op.arg.name)

RegressedTo(name) ==
    /\ ActiveNames(root') = {name}
    /\ status(root') = IF status(get(root, name)[1]) = <<>> THEN <<>> ELSE <<FALSE>>

\* The replaced child is in the visited list of the behaviour.
SequenceRegressesListed ==
    ReplacedThenRun /\ InSeq(op.arg.name, root.behaviour[1].visited)
        => RegressedTo(op.arg.name)

SequenceListed == [][SequenceRegressesListed]_vars

\* The replaced child has been active since the root was entered.
SequenceRegresses ==
    ReplacedThenRun /\ op.arg.name \in late.active => RegressedTo(op.arg.name)

\* C28: in a Sequence plan (run_interval 1) whose children are chained by
\* True-guarded transitions the active child advances by one per tick and
\* then stays at the last child; after a child that has already been visited
\* is replaced by an inactive child with status None, the next tick leaves
\* that child the only active one and the plan status None, and after it is
\* replaced by an inactive child with status Some(false), that child is the
\* only active one and the plan status is Some(false).
C28_SequenceRegresses == []SequenceAdvances /\ [][SequenceRegresses]_vars

(***************************************************************************)
(* MaxUtilBehaviour on the plan of the max_util_behaviour test: the root   *)
(* (run_interval 1, no transitions) has up to MaxChildren subplans whose   *)
(* behaviours count their callbacks and report a utility and a status that  *)
(* are set from outside between the ticks.  Utilities are numbers.          *)
(***************************************************************************)
MaxChildren == 3
MaxUtility == 2
MaxUtilTicks == 3
MaxStatusSets == 2

SetUtilBehaviour(u) == Element("none", "none", "none", <<>>, u)

RECURSIVE WithUtilities(_, _, _)
WithUtilities(plan, utilities, i) ==
    IF i > Len(utilities) THEN plan
    ELSE WithUtilities(With(plan, new(SetUtilBehaviour(utilities[i]), Chain[i], 0, FALSE)),
                       utilities, i + 1)

InitMaxUtil ==
    /\ root \in {WithUtilities(new(MaxUtilBehaviour, "root", 1, TRUE), utilities, 1) :
                    utilities \in Seqs(0..MaxUtility, MaxChildren)}
    /\ log = <<>>
    /\ op = NoOp
    /\ ticks = 0
    /\ late = 0

MaxUtilRun ==
    /\ ticks < MaxUtilTicks
    /\ \E s \in {DoRun(TRUE)} :
          /\ root' = s[1]
          /\ log' = s[2]
          /\ op' = s[3]
    /\ ticks' = ticks + 1
    /\ UNCHANGED late

\* active[0].cast_mut::<SetUtilBehaviour>().unwrap().0 = ...
MaxUtilSet ==
    /\ \E i \in 1..Len(root.plans), u \in 0..MaxUtility :
          /\ root.plans[i].behaviour[1].utility # u
          /\ root' = [root EXCEPT !.plans[i].behaviour[1].utility = u]
    /\ log' = <<>>
    /\ op' = [name |-> "set_utility", arg |-> <<>>, ret |-> FALSE]
    /\ UNCHANGED <<ticks, late>>

MaxUtilEnterPlan ==
    /\ ticks < MaxUtilTicks
    /\ active(root)
    /\ ActiveNames(root) # {}
    /\ \E other \in {root.plans[i].name : i \in 1..Len(root.plans)} \ ActiveNames(root) :
          \E s \in {DoEnterPlan(TRUE, other)} :
              /\ root' = s[1]
              /\ log' = s[2]
              /\ op' = s[3]
    /\ ticks' = ticks + 1
    /\ UNCHANGED late

\* The status a subplan's behaviour reports is set from outside; late counts
\* these assignments.
MaxUtilSetStatus ==
    /\ late < MaxStatusSets
    /\ \E i \in 1..Len(root.plans), s \in Statuses :
          /\ root.plans[i].behaviour[1].status # s
          /\ root' = [root EXCEPT !.plans[i].behaviour[1].status = s]
    /\ log' = <<>>
    /\ op' = [name |-> "set_status", arg |-> <<>>, ret |-> FALSE]
    /\ late' = late + 1
    /\ UNCHANGED ticks

NextMaxUtil == MaxUtilRun \/ MaxUtilSet \/ MaxUtilEnterPlan \/ MaxUtilSetStatus

SpecMaxUtil == InitMaxUtil /\ [][NextMaxUtil]_vars

\* The positions of the active subplans of p.
ActiveAt(p) == {i \in 1..Len(p.plans) : active(p.plans[i])}

Ticked == op'.name = "run" /\ root.plans # <<>>

\* The subplan left active by the tick has the greatest utility, and the
\* subplans after it have a smaller one.
ChoosesLast ==
    Ticked /\ Cardinality(ActiveAt(root)) <= 1 =>
        \E i \in 1..Len(root.plans) :
            /\ ActiveAt(root') = {i}
            /\ \A j \in 1..Len(root.plans) : utility(root.plans[j]) <= utility(root.plans[i])
            /\ \A j \in (i + 1)..Len(root.plans) :
                   utility(root.plans[j]) < utility(root.plans[i])

\* The subplans before it have a smaller one.
ChoosesFirst ==
    Ticked /\ Cardinality(ActiveAt(root)) <= 1 =>
        \E i \in 1..Len(root.plans) :
            /\ ActiveAt(root') = {i}
            /\ \A j \in 1..Len(root.plans) : utility(root.plans[j]) <= utility(root.plans[i])
            /\ \A j \in 1..(i - 1) : utility(root.plans[j]) < utility(root.plans[i])

\* C29 (amended): on a plan with at most one active subplan, on_prepare of
\* MaxUtil chooses a subplan whose utility is maximal among all subplans, and
\* when several subplans share the maximal utility it chooses the last of
\* them in subplan order.
C29_ChoosesLast == [][ChoosesLast]_vars

\* C29 as stated: on a plan with at most one active subplan, on_prepare of
\* MaxUtil chooses a subplan whose utility is maximal among all subplans, and
\* when several subplans share the maximal utility it chooses the first of
\* them in subplan order.
C29_ChoosesFirst == [][ChoosesFirst]_vars

\* A and B share the greatest utility and the tick has left B active.
C29_Witness ==
    /\ op.name = "run"
    /\ Len(root.plans) = 3
    /\ utility(root.plans[1]) = 2
    /\ utility(root.plans[2]) = 2
    /\ utility(root.plans[3]) = 1
    /\ ActiveAt(root) = {2}

Child(p, i) == <<"root", p.plans[i].name>>

Untouched(i) ==
    /\ Pos(log', "on_exit", Child(root, i), 1) = 0
    /\ Pos(log', "on_entry", Child(root, i), 1) = 0
    /\ root'.plans[i].behaviour = root.plans[i].behaviour

Switched(from, to) ==
    /\ Pos(log', "on_exit", Child(root, from), 1) > 0
    /\ Pos(log', "on_entry", Child(root, to), 1) > Pos(log', "on_exit", Child(root, from), 1)
    /\ Cardinality(EventsIn(log', Child(root, from), "on_exit")) = 1
    /\ Cardinality(EventsIn(log', Child(root, to), "on_entry")) = 1

OneActive ==
    Ticked /\ Cardinality(ActiveAt(root)) <= 1 =>
        \E i \in 1..Len(root.plans) :
            /\ ActiveAt(root') = {i}
            /\ \A j \in 1..Len(root.plans) :
                   ~(utility(root.plans[j]) > utility(root.plans[i]))
            /\ \A j \in ActiveAt(root) : IF j = i THEN Untouched(i) ELSE Switched(j, i)

\* C30: a tick of a MaxUtil plan with run_interval 1, no transitions, at
\* least one subplan and at most one active subplan leaves exactly one
\* subplan active, and none has a strictly greater utility than it had at
\* on_prepare; a different subplan that was active has been exited before
\* the chosen one is entered, and a chosen subplan that was already active
\* receives neither on_exit nor on_entry.
C30_OneActive == [][OneActive]_vars

\* The tick has exited C, which was active, and then entered A.
C30_Witness ==
    /\ op.name = "run"
    /\ Len(root.plans) = 3
    /\ ActiveAt(root) = {1}
    /\ Pos(log, "on_exit", <<"root", "C">>, 1) > 0
    /\ Pos(log, "on_entry", <<"root", "A">>, 1) > Pos(log, "on_exit", <<"root", "C">>, 1)
    /\ root.plans[3].behaviour[1].exit_count = 1
    /\ root.plans[1].behaviour[1].entry_count = 1

\* The greatest utility among the subplans of p.
Greatest(p) ==
    CHOOSE u \in {utility(p.plans[i]) : i \in 1..Len(p.plans)} :
        \A j \in 1..Len(p.plans) : utility(p.plans[j]) <= u

\* The first of the active subplans of p.
FirstActive(p) == p.plans[CHOOSE i \in ActiveAt(p) : \A j \in ActiveAt(p) : i <= j]

MaxUtilReports ==
    IF root.plans = <<>> THEN status(root) = <<>> /\ utility(root) = 0
    ELSE /\ status(root) = IF ActiveAt(root) = {} THEN <<>> ELSE status(FirstActive(root))
         /\ utility(root) = Greatest(root)

\* A tick of the plan without subplans calls the root's behaviour and nothing
\* else, and leaves the plan without subplans.
MaxUtilIdle ==
    op'.name = "run" /\ root.plans = <<>> =>
        /\ root'.plans = <<>>
        /\ active(root')
        /\ \A k \in 1..Len(log') : log'[k].who = <<"root">>

\* C31: a MaxUtil plan without subplans reports utility 0 and status None,
\* and its on_prepare changes no activation and creates no subplan; with
\* subplans its status is the status of the active subplan (None when no
\* subplan is active) and its utility is the maximal subplan utility.
C31_MaxUtilReports == []MaxUtilReports /\ [][MaxUtilIdle]_vars

\* B is the active subplan and reports failure, A is inactive and reports
\* success, and the utility of C is the greatest.
C31_Witness ==
    /\ Len(root.plans) = 3
    /\ ActiveAt(root) = {2}
    /\ status(root.plans[1]) = <<TRUE>>
    /\ status(root.plans[2]) = <<FALSE>>
    /\ status(root) = <<FALSE>>
    /\ utility(root.plans[3]) = 2
    /\ utility(root.plans[2]) = 1
    /\ utility(root) = 2

(***************************************************************************)
(* The transition pass of run on a root (run_interval 1, a counting         *)
(* behaviour) with the subplans A, B, C.  Each subplan is a MaxUtil plan    *)
(* (run_interval 0) over one autostart subplan that reports a fixed status, *)
(* so its status is that status while it is active and None while it is     *)
(* not: a fire of the pass changes what a predicate evaluates to.           *)
(***************************************************************************)
MaxPassOps == 4

Gauge(name, autostart, s) ==
    With(new(MaxUtilBehaviour, name, 0, autostart),
         new(SetStatusBehaviour(<<s>>), "A", 0, TRUE))

PassLists ==
    { <<Transition(<<"A">>, <<"B">>, True), Transition(<<"A">>, <<"C">>, True)>>,
      <<Transition(<<"A">>, <<"B">>, True), Transition(<<"B">>, <<"C">>, True)>>,
      <<Transition(<<"A">>, <<"B">>, True), Transition(<<"A">>, <<"C">>, AllSuccess)>>,
      <<Transition(<<"A">>, <<"B">>, AnyFailure), Transition(<<>>, <<"C">>, AnySuccess)>>,
      <<Transition(<<>>, <<"B">>, Not(AnySuccess)), Transition(<<>>, <<"C">>, AnySuccess),
        Transition(<<"B", "C">>, <<"A">>, True)>>,
      <<Transition(<<"A", "B">>, <<"C">>, Xor(<<AllSuccess, AnySuccess>>)),
        Transition(<<"C">>, <<"A">>, False), Transition(<<"B">>, <<>>, True)>> }

PassTree(ts, a, b) ==
    With(With(With([new(Counting, "root", 1, TRUE) EXCEPT !.transitions = ts],
                   Gauge("A", TRUE, a)),
              Gauge("B", FALSE, b)),
         Gauge("C", FALSE, TRUE))

InitPass ==
    /\ root \in {PassTree(ts, a, b) : ts \in PassLists, a \in BOOLEAN, b \in BOOLEAN}
    /\ log = <<>>
    /\ op = NoOp
    /\ ticks = 0
    /\ late = 0

PassRun ==
    /\ ticks < MaxPassOps
    /\ \E s \in {DoRun(TRUE)} :
          /\ root' = s[1]
          /\ log' = s[2]
          /\ op' = s[3]
    /\ ticks' = ticks + 1
    /\ UNCHANGED late

PassEnterPlan ==
    /\ ticks < MaxPassOps
    /\ \E name \in Names : \E s \in {DoEnterPlan(TRUE, name)} :
          /\ root' = s[1]
          /\ log' = s[2]
          /\ op' = s[3]
    /\ ticks' = ticks + 1
    /\ UNCHANGED late

PassExitPlan ==
    /\ ticks < MaxPassOps
    /\ \E name \in Names : \E s \in {DoExitPlan(TRUE, name)} :
          /\ root' = s[1]
          /\ log' = s[2]
          /\ op' = s[3]
    /\ ticks' = ticks + 1
    /\ UNCHANGED late

PassExit ==
    /\ ticks < MaxPassOps
    /\ \E s \in {DoExit(TRUE, FALSE)} :
          /\ root' = s[1]
          /\ log' = s[2]
          /\ op' = s[3]
    /\ ticks' = ticks + 1
    /\ UNCHANGED late

NextPass == PassRun \/ PassEnterPlan \/ PassExitPlan \/ PassExit

SpecPass == InitPass /\ [][NextPass]_vars

\* The tree at the start of the transition pass of a tick: run enters the
\* plan first.
PassStart == enter(World(root), <<"root">>).p

Arc(t) == [src |-> t.src, dst |-> t.dst]

Arcs(ts) == [i \in 1..Len(ts) |-> Arc(ts[i])]

\* The transitions the root fired, in the order of their fires.
Fires(events) ==
    Arcs([i \in 1..Len(SelectSeq(events, LAMBDA e : e.ev = "transition" /\ e.who = <<"root">>))
             |-> SelectSeq(events, LAMBDA e : e.ev = "transition" /\ e.who = <<"root">>)[i].info])

\* The transitions of p whose src are all active in p and whose predicate
\* holds on p, in list order.
DueAt(p) ==
    SelectSeq(p.transitions,
        LAMBDA t : /\ \A i \in 1..Len(t.src) : \E j \in ActiveAt(p) : p.plans[j].name = t.src[i]
                   /\ evaluate(t.predicate, p, t.src))

PassFires == op'.name = "run" => Fires(log') = Arcs(DueAt(PassStart))

\* C32: in one tick of a plan, the transitions that fire are exactly those
\* whose src names all belong to the set of subplans that were active when
\* the transition pass started and whose predicate is true on the tree as it
\* was before any transition of that pass fired; they fire in list order, and
\* a fire earlier in the pass neither enables nor disables a later
\* transition, so two enabled transitions with the same src both fire in the
\* same tick.
C32_PassFires == [][PassFires]_vars

\* Both transitions from A have fired in the tick, the second on a predicate
\* that no longer held once the first had exited A.
C32_Witness ==
    /\ op.name = "run"
    /\ root.transitions[2].predicate = AllSuccess
    /\ Fires(log) = <<[src |-> <<"A">>, dst |-> <<"B">>], [src |-> <<"A">>, dst |-> <<"C">>]>>
    /\ ActiveNames(root) = {"B", "C"}
    /\ ~evaluate(AllSuccess, root, <<"A">>)

(***************************************************************************)
(* The subplans a tick runs, on the trees of SpecTrace.                     *)
(***************************************************************************)
\* The subplans of the root that were active when the transition pass of the
\* last tick started: the snapshot the "run" event of the root carries.
Snapshot == log[Pos(log, "run", <<"root">>, 1)].info

\* The subplans active when the pass ended: those the last fire left active.
AfterPass ==
    IF EventsAt(<<"root">>, "fired") = {} THEN Snapshot
    ELSE log[CHOOSE i \in EventsAt(<<"root">>, "fired") :
                 \A j \in EventsAt(<<"root">>, "fired") : j <= i].info.active

Called(name, ev) == EventsAt(<<"root", name>>, ev) # {}

RunsTheActive ==
    op.name = "run" =>
        \A i \in 1..Len(root.plans) :
            LET name == root.plans[i].name
            IN /\ name \in Snapshot \ AfterPass =>
                      /\ ~Called(name, "run")
                      /\ ~Called(name, "on_prepare")
                      /\ ~Called(name, "on_run")
               /\ name \in AfterPass \ Snapshot =>
                      /\ Called(name, "run")
                      /\ root.plans[i].behaviour # <<>> /\ root.plans[i].run_interval >= 1 =>
                             Called(name, "on_prepare") /\ Called(name, "on_run")

\* A subplan with run_interval 1 counts one more on_run in a tick exactly
\* when it is active at the end of the tick.
CountsTicks ==
    op'.name = "run" =>
        \A i \in 1..Len(root.plans) :
            root.plans[i].behaviour # <<>> /\ root.plans[i].run_interval = 1 =>
                /\ get(root', root.plans[i].name) # <<>>
                /\ get(root', root.plans[i].name)[1].behaviour[1].run_count =
                       root.plans[i].behaviour[1].run_count
                       + (IF active(get(root', root.plans[i].name)[1]) THEN 1 ELSE 0)

MaxJumpOps == 7

JumpTree(b, guard) ==
    With(With(With([new(b, "root", 1, TRUE) EXCEPT
                       !.transitions = <<Transition(<<"A">>, <<"B">>, guard),
                                         Transition(<<"B">>, <<"C">>, guard)>>],
                   new(SetStatusBehaviour(<<>>), "A", 0, TRUE)),
              new(SetStatusBehaviour(<<>>), "B", 0, FALSE)),
         new(SetStatusBehaviour(<<>>), "C", 0, FALSE))

InitJump ==
    /\ root \in {JumpTree(SequenceBehaviour, AllSuccess), JumpTree(FallbackBehaviour, AllFailure)}
    /\ log = <<>>
    /\ op = NoOp
    /\ ticks = 0
    /\ late = <<>>

\* The sets of active subplans the events of an operation show, in order:
\* the snapshot of a tick and what each fire left active.
RECURSIVE ActiveSets(_, _)
ActiveSets(events, i) ==
    IF i > Len(events) THEN <<>>
    ELSE IF events[i].who = <<"root">> /\ events[i].ev = "run"
    THEN <<events[i].info>> \o ActiveSets(events, i + 1)
    ELSE IF events[i].who = <<"root">> /\ events[i].ev = "fired"
    THEN <<events[i].info.active>> \o ActiveSets(events, i + 1)
    ELSE ActiveSets(events, i + 1)

\* The names of a set in the order of the subplans.
RECURSIVE InOrder(_)
InOrder(S) ==
    IF S = {} THEN <<>>
    ELSE <<CHOOSE n \in S : \A m \in S : NameRank(n) <= NameRank(m)>>
         \o InOrder(S \ {CHOOSE n \in S : \A m \in S : NameRank(n) <= NameRank(m)})

\* order extended by the subplans that became active from one set to the next.
RECURSIVE Became(_, _, _, _)
Became(order, before, sets, i) ==
    IF i > Len(sets) THEN order
    ELSE Became(order \o InOrder(sets[i] \ before), sets[i], sets, i + 1)

JumpRun ==
    /\ ticks < MaxJumpOps
    /\ \E s \in {DoRun(TRUE)} :
          /\ root' = s[1]
          /\ log' = s[2]
          /\ op' = s[3]
          /\ late' = Became(IF active(root) THEN late ELSE <<>>,
                            IF active(root) THEN ActiveNames(root) ELSE {},
                            ActiveSets(s[2], 1) \o <<ActiveNames(s[1])>>, 1)
    /\ ticks' = ticks + 1

JumpSetStatus ==
    /\ ticks < MaxJumpOps
    /\ \E i \in 1..Len(root.plans), s \in Statuses :
          /\ root.plans[i].behaviour # <<>>
          /\ root.plans[i].behaviour[1].status # s
          /\ root' = [root EXCEPT !.plans[i].behaviour[1].status = s]
    /\ log' = <<>>
    /\ op' = [name |-> "set_status", arg |-> <<>>, ret |-> FALSE]
    /\ ticks' = ticks + 1
    /\ UNCHANGED late

JumpExit ==
    /\ ticks < MaxJumpOps
    /\ active(root)
    /\ \E s \in {DoExit(TRUE, FALSE)} :
          /\ root' = s[1]
          /\ log' = s[2]
          /\ op' = s[3]
    /\ late' = <<>>
    /\ ticks' = ticks + 1

\* A subplan is entered from outside when none is active, as the behaviours
\* expect one active subplan at a time.
JumpEnterPlan ==
    /\ ticks < MaxJumpOps
    /\ active(root)
    /\ ActiveNames(root) = {}
    /\ \E name \in Names \ ActiveNames(root) : \E s \in {DoEnterPlan(TRUE, name)} :
          /\ root' = s[1]
          /\ log' = s[2]
          /\ op' = s[3]
          /\ late' = Append(late, name)
    /\ ticks' = ticks + 1

JumpRemove ==
    /\ ticks < MaxJumpOps
    /\ \E name \in {"B"} : \E s \in {DoRemove(TRUE, name)} :
          /\ s[3].ret
          /\ root' = s[1]
          /\ log' = s[2]
          /\ op' = s[3]
    /\ ticks' = ticks + 1
    /\ UNCHANGED late

NextJump == JumpRun \/ JumpSetStatus \/ JumpExit \/ JumpEnterPlan \/ JumpRemove

SpecJump == InitJump /\ [][NextJump]_vars

\* The plan as on_prepare of a tick finds it: entered, the transitions fired.
AtPrepare == run_transitions(enter(World(root), <<"root">>), <<"root">>).p

Visited(p) == p.behaviour[1].visited

JumpVal(p) == p.behaviour[1].kind = "FallbackBehaviour"

\* The subplan named by entry i of the visited list exists in p, is inactive
\* and has status None or Some(jump_val).
Hit(p, i) ==
    \E j \in 1..Len(p.plans) :
        /\ p.plans[j].name = Visited(p)[i]
        /\ j \notin ActiveAt(p)
        /\ status(p.plans[j]) \in {<<>>, <<JumpVal(p)>>}

Hits(p) == {i \in 1..Len(Visited(p)) : Hit(p, i)}

FirstHit(p) == CHOOSE i \in Hits(p) : \A j \in Hits(p) : i <= j

Last(s) == s[Len(s)]

\* q is p after a jump back to its first hit.
JumpedBack(p, q) ==
    /\ ActiveNames(q) = {Visited(p)[FirstHit(p)]}
    /\ Visited(q) = SubSeq(Visited(p), 1, FirstHit(p))

\* q is p with the active subplan noted at the end of the list.
Noted(p, q) ==
    /\ Len(q.plans) = Len(p.plans)
    /\ \A i \in 1..Len(p.plans) :
           q.plans[i].name = p.plans[i].name /\ active(q.plans[i]) = active(p.plans[i])
    /\ Visited(q) =
           IF ActiveAt(p) = {} THEN Visited(p)
           ELSE IF Visited(p) # <<>> /\ Last(Visited(p)) = FirstActive(p).name THEN Visited(p)
           ELSE Append(Visited(p), FirstActive(p).name)

Prepares ==
    op'.name = "run" =>
        IF Hits(AtPrepare) # {} THEN JumpedBack(AtPrepare, root') ELSE Noted(AtPrepare, root')

\* C34: on each on_prepare of a Sequence (jump_val false) or Fallback
\* (jump_val true) behaviour, with p the first position in visited whose
\* named subplan exists, is inactive and has status None or Some(jump_val):
\* if there is such a p, afterwards visited[p] is the only active subplan and
\* visited is its former part up to that entry; if there is none, no
\* subplan's activation changes and visited gains the name of the first
\* active subplan when that name differs from its last entry, and is
\* unchanged when no subplan is active.
C34_Prepares == [][Prepares]_vars

\* The tick has jumped back from B to A, the first of two visited entries.
C34_Witness ==
    /\ op.name = "run"
    /\ Visited(root) = <<"A">>
    /\ ActiveNames(root) = {"A"}
    /\ \E i \in 1..Len(log) : log[i].ev = "on_exit" /\ log[i].who = <<"root", "B">>
    /\ \E i \in 1..Len(log) :
           /\ log[i].ev = "on_entry" /\ log[i].who = <<"root", "A">>
           /\ \E j \in 1..(i - 1) : log[j].ev = "on_prepare" /\ log[j].who = <<"root">>

\* s can be read off t from left to right, skipping entries of t.
RECURSIVE Embeds(_, _)
Embeds(s, t) ==
    IF s = <<>> THEN TRUE
    ELSE IF t = <<>> THEN FALSE
    ELSE IF Head(s) = Head(t) THEN Embeds(Tail(s), Tail(t))
    ELSE Embeds(s, Tail(t))

\* The visited list names subplans that became active since the root was
\* last entered, in the order they did.
VisitedThisActivation == active(root) => Embeds(Visited(root), late)

\* The entry the tick jumped back to, if it jumped.
JumpsTo(name) ==
    /\ op'.name = "run"
    /\ Hits(AtPrepare) # {}
    /\ name = Visited(AtPrepare)[FirstHit(AtPrepare)]

\* A tick that enters the root jumps back to no subplan: none has been
\* visited in the activation it starts, beside those it has just entered.
NoStaleJump ==
    \A name \in Names :
        ~active(root) /\ JumpsTo(name) =>
            \E i \in 1..Len(ActiveSets(log', 1)) : name \in ActiveSets(log', 1)[i]

\* C35: at every point, each name in the visited list of a Sequence or
\* Fallback behaviour is a subplan that has been the active node during the
\* plan's current activation, listed in the order they became active; after
\* the plan has been exited and entered again, a subplan that was active
\* only during the previous activation is not in the list and cannot be the
\* target of a regression jump.
C35_VisitedThisActivation == []VisitedThisActivation /\ [][NoStaleJump]_vars

(***************************************************************************)
(* A plan that exits itself from a callback of its tick, on the trees of    *)
(* SpecCall.                                                                *)
(***************************************************************************)
\* The last operation was a tick in which the callback `hook` of the root was
\* called and exited the root.
SelfExit(hook) ==
    /\ op.name = "run"
    /\ root.behaviour[1].hook = hook
    /\ root.behaviour[1].act = "exit"
    /\ EventsAt(<<"root">>, hook) # {}

AllInactive == \A n \in AllNodes : n.plan.run_countdown = MAX

PrepareExitStops ==
    SelfExit("on_prepare") =>
        /\ AllInactive
        /\ EventsAt(<<"root">>, "on_run") = {}
        /\ \A i \in 1..Len(log) : log[i].ev = "run" => log[i].who = <<"root">>

\* C36: if a plan's on_prepare callback exits the plan itself, the tick stops
\* there: run() is invoked on none of its subplans, on_run is not invoked,
\* run_countdown is not touched again, and the plan and all its descendants
\* are inactive when run() returns.
C36_PrepareExitStops == PrepareExitStops

\* on_prepare has exited the root and with it the subplan B, which was
\* active when the tick began.
C36_Witness ==
    /\ SelfExit("on_prepare")
    /\ "B" \in Snapshot
    /\ \E i \in EventsAt(<<"root", "B">>, "on_exit") :
           \A j \in EventsAt(<<"root">>, "on_prepare") : j < i
    /\ root.run_countdown = MAX

RunExitStays == SelfExit("on_run") => ~active(root)

\* C38: if a plan's on_run callback exits the plan itself, so that the plan
\* is inactive when the callback returns, the plan is still inactive when
\* run() returns: the interval bookkeeping after on_run does not turn an
\* exited plan active again.
C38_RunExitStays == RunExitStays

(***************************************************************************)
(* The countdown of RepeatBehaviour, on the trees of SpecRepeat.            *)
(***************************************************************************)
\* The iterations completed in the activation: what the countdown has lost.
CountWithin == Wrapper(root).count_down \in 0..Wrapper(root).iterations

\* A tick changes the countdown by one decrement at most, from a value that
\* is not 0.
CountsDown ==
    op'.name = "run" /\ Wrapper(root').count_down # CountAtPrepare(root) =>
        /\ CountAtPrepare(root) > 0
        /\ Wrapper(root').count_down = CountAtPrepare(root) - 1

\* C39: in every activation of a Repeat wrapper driven by Plan::run, the
\* countdown of the remaining iterations is never decremented when it is 0
\* (no unsigned underflow), so the number of inner iterations completed in
\* one activation never exceeds `iterations`.
C39_CountsDown == []CountWithin /\ [][CountsDown]_vars

\* Both iterations are used up and the tick after them has stopped the
\* wrapper with the countdown at 0.
C39_Witness ==
    /\ op.name = "run"
    /\ late = 3
    /\ Wrapper(root).iterations = 2
    /\ Wrapper(root).count_down = 0
    /\ Wrapper(root).status = <<~Wrapper(root).retry>>

(***************************************************************************)
(* The callbacks the inner behaviour of the Repeat wrapper receives, on the *)
(* trees of SpecRepeat.  The inner behaviour counts them; its on_entry       *)
(* enters the subplan B, its on_exit exits B and its on_prepare leaves a     *)
(* "slot" event, so the events of an operation show their order.            *)
(***************************************************************************)
Inner(p) == Wrapper(p).behaviour.list[1]

IsAt(e, ev, who) == e.ev = ev /\ e.who = who

\* Whether the inner behaviour is entered before event k of an operation
\* that found it entered or not: 1 or 0 when its entries and exits alternate.
EnteredAt(events, k, entered) ==
    (IF entered THEN 1 ELSE 0)
    + Cardinality({i \in 1..(k - 1) : IsAt(events[i], "on_entry", <<"root", "B">>)})
    - Cardinality({i \in 1..(k - 1) : IsAt(events[i], "on_exit", <<"root", "B">>)})

InnerBalanced ==
    /\ Inner(root).entry_count = Inner(root).exit_count + (IF active(root) THEN 1 ELSE 0)
    /\ active(root) <=> "B" \in ActiveNames(root)

InnerOrdered ==
    /\ \A k \in 1..Len(log') :
           /\ IsAt(log'[k], "on_entry", <<"root", "B">>) => EnteredAt(log', k, active(root)) = 0
           /\ IsAt(log'[k], "on_exit", <<"root", "B">>) => EnteredAt(log', k, active(root)) = 1
           /\ IsAt(log'[k], "slot", <<"root">>) => EnteredAt(log', k, active(root)) = 1
           /\ IsAt(log'[k], "on_run", <<"root">>) => EnteredAt(log', k, active(root)) = 1
    /\ Inner(root').run_count \in {Inner(root).run_count, Inner(root).run_count + 1}
    /\ Inner(root').run_count # Inner(root).run_count =>
           /\ op'.name = "run"
           /\ \E k \in 1..Len(log') :
                  /\ IsAt(log'[k], "slot", <<"root">>)
                  /\ \E l \in (k + 1)..Len(log') : IsAt(log'[l], "on_run", <<"root">>)

\* C40: the inner behaviour of a Repeat wrapper sees a well-formed lifecycle
\* over any sequence of wrapper entries, ticks and exits: its on_entry and
\* on_exit calls strictly alternate starting with on_entry, its on_prepare
\* and on_run calls only occur between an on_entry and the following
\* on_exit, and every inner on_run is preceded in the same tick by an inner
\* on_prepare.
C40_InnerLifecycle == []InnerBalanced /\ [][InnerOrdered]_vars

\* A tick has prepared and run the inner behaviour and started its next
\* iteration: exited, then entered again.
C40_Witness ==
    /\ op.name = "run"
    /\ Inner(root).entry_count = 2
    /\ Inner(root).exit_count = 1
    /\ Inner(root).run_count = 1
    /\ \E k \in 1..Len(log) :
           /\ IsAt(log[k], "slot", <<"root">>)
           /\ \E l \in (k + 1)..Len(log) :
                  /\ IsAt(log[l], "on_exit", <<"root", "B">>)
                  /\ \E m \in (l + 1)..Len(log) : IsAt(log[m], "on_entry", <<"root", "B">>)

(***************************************************************************)
(* The rayon build: the subplans of a plan are run, entered and exited      *)
(* through par_bridge().for_each, in no fixed order.  A callback gets       *)
(* &mut Plan of its own plan and nothing else, so the work on one subplan   *)
(* is a step on that subplan's subtree alone, and a parallel execution is   *)
(* the work on the subplans taken in some order.  order lists the names in  *)
(* the order their subplans are taken.  The work inside a subplan is that   *)
(* of the serial build.                                                     *)
(***************************************************************************)
MaxParallelOps == 3

RECURSIVE run_in_order(_, _, _, _)
RECURSIVE enter_in_order(_, _, _, _)
RECURSIVE exit_in_order(_, _, _, _)

At(w, name) == priority(w.p, name).pos

\* (Mutant: the work on a subplan is lost when another subplan is taken
\* after it.)
run_in_order_last(w, order, k, who) ==
    IF k > Len(order) THEN w
    ELSE IF get(w.p, order[k]) # <<>> /\ active(get(w.p, order[k])[1])
    THEN Up(w, At(w, order[k]), run(Down(w, At(w, order[k])), Append(who, order[k])))
    ELSE run_in_order(w, order, k + 1, who)

\* plans.iter_mut().filter(|plan| plan.active()).par_bridge().for_each(|plan| plan.run())
run_in_order(w, order, k, who) ==
    IF k > Len(order) THEN w
    ELSE run_in_order(
             IF get(w.p, order[k]) # <<>> /\ active(get(w.p, order[k])[1])
             THEN Up(w, At(w, order[k]), run(Down(w, At(w, order[k])), Append(who, order[k])))
             ELSE w, order, k + 1, who)

enter_in_order(w, order, k, who) ==
    IF k > Len(order) THEN w
    ELSE enter_in_order(
             IF /\ get(w.p, order[k]) # <<>>
                /\ get(w.p, order[k])[1].autostart
                /\ ~active(get(w.p, order[k])[1])
             THEN Up(w, At(w, order[k]), enter(Down(w, At(w, order[k])), Append(who, order[k])))
             ELSE w, order, k + 1, who)

exit_in_order(w, order, k, who) ==
    IF k > Len(order) THEN w
    ELSE exit_in_order(
             IF get(w.p, order[k]) # <<>> /\ active(get(w.p, order[k])[1])
             THEN Up(w, At(w, order[k]),
                     exit(Down(w, At(w, order[k])), FALSE, Append(who, order[k])))
             ELSE w, order, k + 1, who)

enter_parallel(w, order, who) ==
    IF active(w.p) THEN Returning(w, FALSE)
    ELSE Returning(enter_in_order(
             call([w EXCEPT !.p.run_countdown = 0], "on_entry", who), order, 1, who), TRUE)

exit_parallel(w, exclude_self, order, who) ==
    IF ~active(w.p) THEN Returning(w, FALSE)
    ELSE Returning(exit_self(exit_in_order(w, order, 1, who), exclude_self, who), TRUE)

run_behaviour_parallel(w, order, who) ==
    IF ~active(w.p) THEN Ran(w, who)
    ELSE Ran(run_gate(run_in_order(w, order, 1, who), who), who)

run_parallel(w, order, who) ==
    run_behaviour_parallel(
        run_prepare(run_transitions(enter_parallel(w, order, who), who), who), order, who)

Orders == {o \in [1..3 -> Names] : \A n \in Names : \E i \in 1..3 : o[i] = n}

\* The subplans of the trees: plans that count, with or without a subplan of
\* their own, and plans whose callbacks call into their own plan.
Kids(name) ==
    { new(Counting, name, 1, TRUE),
      new(Counting, name, 2, FALSE),
      With(new(Counting, name, 1, TRUE), new(Counting, "A", 1, TRUE)),
      new(RunCountBehaviour("on_run", "exit", ScriptArg), name, 1, TRUE),
      new(RunCountBehaviour("on_entry", "enter_plan", ScriptArg), name, 1, TRUE) }

ParallelTrees ==
    {With(With(With([new(Counting, "root", 1, TRUE) EXCEPT !.transitions = ts], a), b), c) :
        a \in Kids("A"), b \in Kids("B"), c \in Kids("C"),
        ts \in {<<>>, <<Transition(<<"A">>, <<"B">>, True)>>}}

InitParallel ==
    /\ root \in ParallelTrees
    /\ log = <<>>
    /\ op = NoOp
    /\ ticks = 0
    /\ late = 0

ParallelRun ==
    /\ ticks < MaxParallelOps
    /\ \E order \in Orders :
          \E s \in {Done(TRUE, "run", order, run_parallel(World(root), order, <<"root">>))} :
              /\ root' = s[1]
              /\ log' = s[2]
              /\ op' = s[3]
    /\ ticks' = ticks + 1
    /\ UNCHANGED late

ParallelEnter ==
    /\ ticks < MaxParallelOps
    /\ \E order \in Orders :
          \E s \in {Done(TRUE, "enter", order, enter_parallel(World(root), order, <<"root">>))} :
              /\ root' = s[1]
              /\ log' = s[2]
              /\ op' = s[3]
    /\ ticks' = ticks + 1
    /\ UNCHANGED late

ParallelExit ==
    /\ ticks < MaxParallelOps
    /\ \E order \in Orders :
          \E s \in {Done(TRUE, "exit", order,
                         exit_parallel(World(root), FALSE, order, <<"root">>))} :
              /\ root' = s[1]
              /\ log' = s[2]
              /\ op' = s[3]
    /\ ticks' = ticks + 1
    /\ UNCHANGED late

NextParallel == ParallelRun \/ ParallelEnter \/ ParallelExit

SpecParallel == InitParallel /\ [][NextParallel]_vars

\* The tree after the operation is the tree the serial build gives, whatever
\* the order the subplans were taken in.
AsSerial ==
    /\ op'.name = "run" => root' = run(World(root), <<"root">>).p
    /\ op'.name = "enter" => root' = enter(World(root), <<"root">>).p
    /\ op'.name = "exit" => root' = exit(World(root), FALSE, <<"root">>).p

\* C37: when sibling subplans are run, entered or exited in parallel and
\* every behaviour touches only its own plan's subtree, the resulting tree
\* state (activation, countdowns, behaviour state, subplan lists) after run,
\* enter or exit is the same for every interleaving of the siblings and
\* equals the result of processing them serially in sorted name order.
C37_AsSerial == [][AsSerial]_vars

\* A tick took C before A, and both have run their behaviours.
C37_Witness ==
    /\ op.name = "run"
    /\ op.arg[1] = "C"
    /\ \E i \in EventsAt(<<"root", "C">>, "on_run") :
           \E j \in EventsAt(<<"root", "A">>, "on_run") : i < j
    /\ \A i \in 1..Len(root.plans) : root.plans[i].behaviour[1].run_count >= 1
====
